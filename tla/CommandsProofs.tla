--------------------------- MODULE CommandsProofs ---------------------------
(***************************************************************************)
(* Theorems about the command engine, for any commands whose places are    *)
(* like those of the commands that are installed, and any typed words: an  *)
(* abbreviated line runs the one command that its words name, and what '?' *)
(* shows behind a line is what may be typed there.                         *)
(*                                                                         *)
(* The rounds over the words of a line are a recursive function, which an  *)
(* induction follows from word to word; each round is a lemma on one word. *)
(***************************************************************************)
EXTENDS Commands, WellFoundedInduction, SequenceTheorems, FiniteSetTheorems, TLAPS

\* Induction: what holds of 0, and of k + 1 if of k, holds of every number.
LEMMA ByCounting ==
    ASSUME NEW T, 0 \in T, \A k \in Nat : k \in T => k + 1 \in T
    PROVE  \A k \in Nat : k \in T
<1> SUFFICES ASSUME Nat \ T # {} PROVE FALSE
    OBVIOUS
<1>1. PICK x \in Nat \ T : \A y \in Nat \ T : ~ (<<y, x>> \in OpToRel(<, Nat))
    BY NatLessThanWellFounded, WFMin, Nat \ T \in SUBSET Nat
<1>2. x \in Nat /\ x \notin T /\ x # 0
    OBVIOUS
<1>3. x - 1 \in Nat /\ x = (x - 1) + 1 /\ x - 1 < x
    BY <1>2
<1>4. x - 1 \notin T
    BY <1>2, <1>3
<1> QED
    BY <1>1, <1>2, <1>3, <1>4 DEF OpToRel

Begin(n) == [left |-> CmdVec[n], words |-> 0, status |-> "more"]

\* f tells what every round over the words of l comes to.
Rounds(f, strict, Ends, n, l) ==
    /\ f[0] = Begin(n)
    /\ \A k \in 1 .. Len(l) : f[k] = Round(strict, Ends, f[k - 1], l[k])

\* Such an f exists, and what a line comes to is its last value.
LEMMA MatchedIsLast ==
    ASSUME NEW strict, NEW Ends, NEW n, NEW l, Len(l) \in Nat
    PROVE  \E f : Rounds(f, strict, Ends, n, l) /\ Matched(strict, Ends, n, l) = f[Len(l)]
<1> DEFINE Step(g, k) == IF k = 0 THEN Begin(n) ELSE Round(strict, Ends, g[k - 1], l[k])
           Is(g, k) == g = [j \in 0 .. k |-> Step(g, j)]
           T == {k \in Nat : \E g : Is(g, k)}
<1>1. 0 \in T
    <2>1. Is([j \in 0 .. 0 |-> Begin(n)], 0)
        OBVIOUS
    <2> QED
        BY <2>1
<1>2. ASSUME NEW k \in Nat, k \in T PROVE k + 1 \in T
    <2>1. PICK g : Is(g, k)
        BY <1>2
    <2> DEFINE h == [j \in 0 .. (k + 1) |-> IF j = k + 1 THEN Step(g, k + 1) ELSE g[j]]
    <2>2. \A j \in 0 .. k : h[j] = g[j] /\ g[j] = Step(g, j)
        BY <2>1
    <2>3. ASSUME NEW j \in 0 .. (k + 1) PROVE h[j] = Step(h, j)
        <3>1. j # 0 => j - 1 \in 0 .. k
            OBVIOUS
        <3>2. j # 0 => h[j - 1] = g[j - 1]
            BY <3>1, <2>2
        <3>3. Step(h, j) = Step(g, j)
            BY <3>2
        <3>4. CASE j = k + 1
            BY <3>3, <3>4
        <3>5. CASE j # k + 1
            <4>1. j \in 0 .. k
                BY <3>5
            <4> QED
                BY <4>1, <3>3, <2>2
        <3> QED
            BY <3>4, <3>5
    <2>4. Is(h, k + 1)
        <3> HIDE DEF Step
        <3>1. h = [j \in 0 .. (k + 1) |-> h[j]]
            OBVIOUS
        <3> HIDE DEF h
        <3> QED
            BY <3>1, <2>3
    <2>5. \E e : Is(e, k + 1)
        <3> HIDE DEF Is, h
        <3> QED
            BY <2>4
    <2> QED
        BY <2>5
<1>3. Len(l) \in T
    <2> HIDE DEF T
    <2> QED
    BY <1>1, <1>2, ByCounting
<1> DEFINE f == CHOOSE g : Is(g, Len(l))
<1>4. Is(f, Len(l))
    BY <1>3
<1>5. Matched(strict, Ends, n, l) = f[Len(l)]
    BY DEF Matched, Begin
<1>6. Rounds(f, strict, Ends, n, l)
    <2> HIDE DEF f
    <2>1. \A k \in 0 .. Len(l) : f[k] = Step(f, k)
        BY <1>4
    <2> QED
        BY <2>1 DEF Rounds
<1> QED
    BY <1>5, <1>6

\* Two lines that begin with the same k words come to the same after k rounds.
LEMMA SameRounds ==
    ASSUME NEW strict, NEW Ends, NEW n, NEW l, NEW o, NEW f, NEW g,
           Len(l) \in Nat, Len(o) \in Nat, NEW k \in Nat, k <= Len(l), k <= Len(o),
           \A j \in 1 .. k : l[j] = o[j],
           Rounds(f, strict, Ends, n, l), Rounds(g, strict, Ends, n, o)
    PROVE  f[k] = g[k]
<1> DEFINE T == {j \in Nat : j <= k => f[j] = g[j]}
<1>1. 0 \in T
    BY DEF Rounds
<1>2. ASSUME NEW j \in Nat, j \in T PROVE j + 1 \in T
    <2> SUFFICES ASSUME j + 1 <= k PROVE f[j + 1] = g[j + 1]
        OBVIOUS
    <2>1. f[j] = g[j]
        BY <1>2
    <2>2. j + 1 \in 1 .. Len(l) /\ j + 1 \in 1 .. Len(o) /\ j + 1 \in 1 .. k /\ (j + 1) - 1 = j
        OBVIOUS
    <2>3. f[j + 1] = Round(strict, Ends, f[j], l[j + 1])
        BY <2>2 DEF Rounds
    <2>4. g[j + 1] = Round(strict, Ends, g[j], o[j + 1])
        BY <2>2 DEF Rounds
    <2>5. l[j + 1] = o[j + 1]
        BY <2>2
    <2> QED
        BY <2>1, <2>3, <2>4, <2>5, Zenon
<1>3. k \in T
    <2> HIDE DEF T
    <2> QED
        BY <1>1, <1>2, ByCounting
<1> QED
    BY <1>3

\* One word more is one round more.
LEMMA MatchedOfOneMore ==
    ASSUME NEW strict, NEW Ends, NEW n, NEW S, NEW l \in Seq(S), NEW w \in S
    PROVE  Matched(strict, Ends, n, Append(l, w))
               = Round(strict, Ends, Matched(strict, Ends, n, l), w)
<1> DEFINE o == Append(l, w)
<1>1. /\ o \in Seq(S) /\ Len(o) = Len(l) + 1 /\ o[Len(l) + 1] = w
      /\ \A j \in 1 .. Len(l) : o[j] = l[j]
    BY AppendProperties
<1>2. Len(l) \in Nat /\ Len(o) \in Nat
    BY <1>1
<1>3. PICK f : Rounds(f, strict, Ends, n, l) /\ Matched(strict, Ends, n, l) = f[Len(l)]
    BY <1>2, MatchedIsLast, Zenon
<1>4. PICK g : Rounds(g, strict, Ends, n, o) /\ Matched(strict, Ends, n, o) = g[Len(o)]
    BY <1>2, MatchedIsLast, Zenon
<1> HIDE DEF o
<1>5. f[Len(l)] = g[Len(l)]
    <2>1. Len(l) <= Len(l) /\ Len(l) <= Len(o) /\ \A j \in 1 .. Len(l) : l[j] = o[j]
        BY <1>1, <1>2
    <2> QED
        BY <1>2, <1>3, <1>4, <2>1, SameRounds
<1>6. g[Len(l) + 1] = Round(strict, Ends, g[Len(l)], w)
    <2>1. Len(l) + 1 \in 1 .. Len(o) /\ (Len(l) + 1) - 1 = Len(l)
        BY <1>1, <1>2
    <2> QED
        BY <1>1, <1>4, <2>1 DEF Rounds
<1> QED
    BY <1>1, <1>3, <1>4, <1>5, <1>6 DEF o

Statuses == {"more", "vararg", "AMBIGUOUS"}
Matches(n) == [left : SUBSET CmdVec[n], words : Nat, status : Statuses]

\* m becomes m2: no more commands are left, and nothing is done when the matching has ended.
Continues(n, m, m2) ==
    /\ m2 \in Matches(n)
    /\ m2.left \subseteq m.left
    /\ m.status # "more" => m2 = m
    /\ m2.status = "more" => m.status = "more" /\ m2.words = m.words + 1

LEMMA RoundKeeps ==
    ASSUME NEW strict, NEW Ends, NEW n, NEW m \in Matches(n), NEW w
    PROVE  Continues(n, m, Round(strict, Ends, m, w))
<1> DEFINE m2 == Round(strict, Ends, m, w)
           i == m.words + 1
           left == Filter(strict, m.left, w, i)
           type == Best(strict, m.left, w, i)
           next == {c \in left : \E d \in At(c, i) : Counts(type, w, d)}
<1>1. left \subseteq m.left /\ next \subseteq m.left
    BY DEF Filter
<1>2. i \in Nat /\ m.left \subseteq CmdVec[n] /\ m.status \in Statuses
    BY DEF Matches
<1>3. \/ m.status # "more" /\ m2 = m
      \/ m.status = "more" /\ m2 = [m EXCEPT !.left = left, !.status = "vararg"]
      \/ m.status = "more" /\ m2 = [m EXCEPT !.status = "AMBIGUOUS"]
      \/ m.status = "more" /\ m2 = [m EXCEPT !.words = i, !.left = next]
    BY DEF Round
<1> HIDE DEF left, next, m2
<1> QED
    BY <1>1, <1>2, <1>3 DEF Matches, Statuses, m2, Continues

\* After k rounds: as long as the matching goes on, k words are matched.
LEMMA RoundsType ==
    ASSUME NEW f, NEW strict, NEW Ends, NEW n \in Nodes, NEW l, Len(l) \in Nat,
           Rounds(f, strict, Ends, n, l)
    PROVE  \A k \in 0 .. Len(l) : f[k] \in Matches(n) /\ (f[k].status = "more" => f[k].words = k)
<1> DEFINE T == {k \in Nat : k <= Len(l) =>
                    f[k] \in Matches(n) /\ (f[k].status = "more" => f[k].words = k)}
<1>1. 0 \in T
    BY DEF Rounds, Begin, Matches, Statuses
<1>2. ASSUME NEW k \in Nat, k \in T PROVE k + 1 \in T
    <2> SUFFICES ASSUME k + 1 <= Len(l)
                 PROVE  /\ f[k + 1] \in Matches(n)
                        /\ f[k + 1].status = "more" => f[k + 1].words = k + 1
        OBVIOUS
    <2>1. f[k] \in Matches(n) /\ (f[k].status = "more" => f[k].words = k)
        BY <1>2
    <2>2. k + 1 \in 1 .. Len(l) /\ (k + 1) - 1 = k
        OBVIOUS
    <2>3. f[k + 1] = Round(strict, Ends, f[k], l[k + 1])
        BY <2>2 DEF Rounds
    <2>4. Continues(n, f[k], f[k + 1])
        BY <2>1, <2>3, RoundKeeps, Zenon
    <2> QED
        BY <2>1, <2>4 DEF Continues
<1>3. \A k \in Nat : k \in T
    <2> HIDE DEF T
    <2> QED
        BY <1>1, <1>2, ByCounting
<1> QED
    BY <1>3

Keeps(m, m2) == m2.left \subseteq m.left /\ (m.status # "more" => m2 = m)

\* What is left stays less, and a matching that has ended does not go on.
LEMMA RoundsKeep ==
    ASSUME NEW f, NEW strict, NEW Ends, NEW n \in Nodes, NEW l,
           NEW j \in 0 .. Len(l), NEW k \in j .. Len(l),
           Len(l) \in Nat, Rounds(f, strict, Ends, n, l)
    PROVE  Keeps(f[j], f[k])
<1> DEFINE T == {a \in Nat : j + a <= Len(l) =>
                    f[j + a].left \subseteq f[j].left /\ (f[j].status # "more" => f[j + a] = f[j])}
<1>1. 0 \in T
    OBVIOUS
<1>2. ASSUME NEW a \in Nat, a \in T PROVE a + 1 \in T
    <2> SUFFICES ASSUME j + (a + 1) <= Len(l)
                 PROVE  /\ f[j + (a + 1)].left \subseteq f[j].left
                        /\ f[j].status # "more" => f[j + (a + 1)] = f[j]
        OBVIOUS
    <2>1. f[j + a].left \subseteq f[j].left /\ (f[j].status # "more" => f[j + a] = f[j])
        BY <1>2
    <2>2. PICK b \in 1 .. Len(l) : b = j + (a + 1) /\ b - 1 = j + a
        OBVIOUS
    <2>3. f[b] = Round(strict, Ends, f[b - 1], l[b])
        BY DEF Rounds
    <2>4. f[b - 1] \in Matches(n)
        <3>1. \A x \in 0 .. Len(l) : f[x] \in Matches(n)
            BY RoundsType
        <3> QED
            BY <3>1
    <2>5. Continues(n, f[b - 1], f[b])
        BY <2>3, <2>4, RoundKeeps, Zenon
    <2> QED
        BY <2>1, <2>2, <2>5 DEF Continues
<1>3. k - j \in T
    <2> HIDE DEF T
    <2> QED
        BY <1>1, <1>2, ByCounting
<1>4. j + (k - j) = k
    OBVIOUS
<1> QED
    BY <1>3, <1>4 DEF Keeps

\* Both, whichever way a line is matched.
Orderly(f, n, l) ==
    /\ \A k \in 0 .. Len(l) : f[k] \in Matches(n) /\ (f[k].status = "more" => f[k].words = k)
    /\ \A j \in 0 .. Len(l) : \A k \in j .. Len(l) : Keeps(f[j], f[k])

LEMMA RoundsAreOrderly ==
    ASSUME NEW f, NEW n \in Nodes, NEW l, Len(l) \in Nat
    PROVE  /\ Rounds(f, FALSE, TRUE, n, l) => Orderly(f, n, l)
           /\ Rounds(f, FALSE, FALSE, n, l) => Orderly(f, n, l)
<1>1. ASSUME NEW strict, NEW Ends, Rounds(f, strict, Ends, n, l) PROVE Orderly(f, n, l)
    <2>1. \A k \in 0 .. Len(l) : f[k] \in Matches(n) /\ (f[k].status = "more" => f[k].words = k)
        BY <1>1, RoundsType
    <2>2. \A j \in 0 .. Len(l) : \A k \in j .. Len(l) : Keeps(f[j], f[k])
        BY <1>1, RoundsKeep
    <2> QED
        BY <2>1, <2>2 DEF Orderly
<1> QED
    BY <1>1, Zenon
-----------------------------------------------------------------------------
(* One word.                                                               *)

\* The best match of a typed word.
BestTyped(left, w, i) == Best(FALSE, left, w, i)

Ranks == {"no", "extend", "range", "vararg", "partly", "exact"}

LEMMA RanksOf ==
    /\ DOMAIN Rank = Ranks
    /\ Rank["no"] = 0 /\ Rank["extend"] = 1 /\ Rank["range"] = 6
    /\ Rank["vararg"] = 7 /\ Rank["partly"] = 8 /\ Rank["exact"] = 9
BY DEF Rank, Ranks

LEMMA MatchType ==
    ASSUME NEW strict, NEW w, NEW d
    PROVE  /\ Match(strict, w, d) \in Ranks
           /\ Completes(w, d) \in Ranks
           /\ Match(FALSE, w, d) = Completes(w, d)
           /\ Completes(w, d) # "partly" => Match(TRUE, w, d) = Completes(w, d)
           /\ Match(TRUE, w, d) # "partly"
           /\ Match(TRUE, w, d) # "no" => Match(TRUE, w, d) = Completes(w, d)
BY DEF Match, Equals, Completes, Ranks

\* The best match there is, which may be none.
LEMMA BestOf ==
    ASSUME NEW strict, NEW left, NEW w, NEW i
    PROVE  /\ Best(strict, left, w, i) \in Ranks
           /\ \A c \in left : \A d \in At(c, i) :
                 Rank[Match(strict, w, d)] <= Rank[Best(strict, left, w, i)]
           /\ Best(strict, left, w, i) # "no" =>
                 \E c \in left : \E d \in At(c, i) : Match(strict, w, d) = Best(strict, left, w, i)
<1> DEFINE places == UNION {At(c, i) : c \in left}
           found == {"no"} \cup {Match(strict, w, d) : d \in places}
<1>1. found \subseteq Ranks /\ "no" \in found
    <2>1. \A d \in places : Match(strict, w, d) \in Ranks
        BY MatchType
    <2>2. "no" \in Ranks
        BY DEF Ranks
    <2> QED
        BY <2>1, <2>2
<1>2. \E m \in found : \A o \in found : Rank[o] <= Rank[m]
    <2> HIDE DEF found
    <2> QED
        BY <1>1, RanksOf DEF Ranks
<1> DEFINE b == CHOOSE m \in found : \A o \in found : Rank[o] <= Rank[m]
<1>3. Best(strict, left, w, i) = b
    BY DEF Best
<1>4. b \in found /\ \A o \in found : Rank[o] <= Rank[b]
    <2> HIDE DEF found
    <2> QED
        BY <1>2
<1> HIDE DEF b
<1>5. \A c \in left : \A d \in At(c, i) : Match(strict, w, d) \in found
    OBVIOUS
<1> QED
    BY <1>1, <1>3, <1>4, <1>5

LEMMA OneOfFew ==
    ASSUME NEW S, IsFiniteSet(S), ~ (Cardinality(S) > 1), NEW x \in S, NEW y \in S
    PROVE  x = y
<1> SUFFICES ASSUME x # y PROVE FALSE
    OBVIOUS
<1>1. IsFiniteSet({x}) /\ Cardinality({x}) = 1
    BY FS_Singleton
<1>2. Cardinality({x} \cup {y}) = 2
    BY <1>1, FS_AddElement
<1>3. {x} \cup {y} \in SUBSET S
    OBVIOUS
<1>4. Cardinality({x} \cup {y}) <= Cardinality(S) /\ Cardinality(S) \in Nat
    BY <1>3, FS_Subset, FS_CardinalityType
<1> QED
    BY <1>2, <1>4

\* The alternatives in one place of some commands.
LEMMA PlaceIsFinite ==
    ASSUME NEW n \in Nodes, NEW left \in SUBSET CmdVec[n], NEW i \in Nat \ {0}
    PROVE  IsFiniteSet(UNION {At(c, i) : c \in left})
<1> DEFINE places == {At(c, i) : c \in left}
           f == [c \in left |-> At(c, i)]
<1>1. IsFiniteSet(left)
    <2>1. IsFiniteSet(CmdVec[n])
        BY CommandsAssumption
    <2> QED
        BY <2>1, FS_Subset
<1>2. f \in Surjection(left, places)
    BY DEF Surjection
<1>3. IsFiniteSet(places)
    <2> HIDE DEF f, places
    <2> QED
        BY <1>1, <1>2, FS_Surjection
<1>4. \A P \in places : IsFiniteSet(P)
    <2> SUFFICES ASSUME NEW c \in left PROVE IsFiniteSet(At(c, i))
        OBVIOUS
    <2>1. CASE i \in 1 .. Len(c)
        <3>1. IsFiniteSet(c[i])
            BY <2>1, CommandsAssumption
        <3> QED
            BY <2>1, <3>1 DEF At
    <2>2. CASE i \notin 1 .. Len(c)
        <3>1. Len(c) \in Nat
            BY CommandsAssumption
        <3> QED
            BY <2>2, <3>1, FS_EmptySet DEF At
    <2> QED
        BY <2>1, <2>2
<1> QED
    BY <1>3, <1>4, FS_UNION

\* What the best match tells of the others.
BestIs(type, left, w, i) ==
    /\ type \in Ranks
    /\ \A c \in left : \A d \in At(c, i) :
         /\ Completes(w, d) \in Ranks
         /\ type = "partly" => Completes(w, d) # "exact"
         /\ type \notin {"partly", "exact"} => Completes(w, d) \notin {"partly", "exact"}
         /\ type \in {"no", "extend", "range"} => Completes(w, d) # "vararg"
         /\ type \in {"no", "extend"} => Completes(w, d) # "range"
         /\ type = "no" => Completes(w, d) = "no"
    /\ type # "no" => \E c \in left : \E d \in At(c, i) : Completes(w, d) = type

LEMMA RankOrder ==
    ASSUME NEW t \in Ranks, NEW type \in Ranks, Rank[t] <= Rank[type]
    PROVE  /\ type = "partly" => t # "exact"
           /\ type \notin {"partly", "exact"} => t \notin {"partly", "exact"}
           /\ type \in {"no", "extend", "range"} => t # "vararg"
           /\ type \in {"no", "extend"} => t # "range"
           /\ type = "no" => t = "no"
BY RanksOf DEF Ranks

LEMMA BestCompletes ==
    ASSUME NEW left, NEW w, NEW i
    PROVE  BestIs(BestTyped(left, w, i), left, w, i)
<1> DEFINE type == BestTyped(left, w, i)
<1>1. \A d : Match(FALSE, w, d) = Completes(w, d) /\ Completes(w, d) \in Ranks
    BY MatchType
<1>2. /\ type \in Ranks
      /\ \A c \in left : \A d \in At(c, i) : Rank[Match(FALSE, w, d)] <= Rank[type]
      /\ type # "no" => \E c \in left : \E d \in At(c, i) : Match(FALSE, w, d) = type
    BY BestOf DEF BestTyped
<1> HIDE DEF type
<1>3. /\ type \in Ranks
      /\ \A c \in left : \A d \in At(c, i) : Rank[Completes(w, d)] <= Rank[type]
      /\ type # "no" => \E c \in left : \E d \in At(c, i) : Completes(w, d) = type
    BY <1>1, <1>2
<1>4. ASSUME NEW c \in left, NEW d \in At(c, i)
      PROVE  /\ type = "partly" => Completes(w, d) # "exact"
             /\ type \notin {"partly", "exact"} => Completes(w, d) \notin {"partly", "exact"}
             /\ type \in {"no", "extend", "range"} => Completes(w, d) # "vararg"
             /\ type \in {"no", "extend"} => Completes(w, d) # "range"
             /\ type = "no" => Completes(w, d) = "no"
    <2>1. Completes(w, d) \in Ranks /\ Rank[Completes(w, d)] <= Rank[type]
        BY <1>1, <1>3
    <2> QED
        BY <1>3, <2>1, RankOrder
<1>5. BestIs(type, left, w, i)
    BY <1>1, <1>3, <1>4 DEF BestIs
<1> QED
    BY <1>5 DEF type
-----------------------------------------------------------------------------
(* One round.                                                              *)

Having(left, i, d) == {c \in left : d \in At(c, i)}
Stands(d, left, i) == \E c \in left : d \in At(c, i)

\* A round for a typed word, for one to be completed, for one of a configuration file.
Typing(m, w) == Round(FALSE, TRUE, m, w)
Completing(m, w) == Round(FALSE, FALSE, m, w)
Reading(m, w) == Round(TRUE, TRUE, m, w)

Narrowed(m, i, d) == [m EXCEPT !.words = i, !.left = Having(m.left, i, d)]

\* The alternatives are what they were assumed to be.
LEMMA InPlace ==
    ASSUME NEW n \in Nodes, NEW c \in CmdVec[n], NEW i \in Nat \ {0}, NEW d \in At(c, i)
    PROVE  /\ i \in 1 .. Len(c) /\ d \in c[i]
           /\ d \in Alternatives /\ (d.kind = "word" => d = Word(d.text))
<1>1. c \in Seq(SUBSET Alternatives) /\ Len(c) \in Nat
    BY CommandsAssumption
<1>2. i \in 1 .. Len(c) /\ d \in c[i]
    BY <1>1 DEF At
<1>3. c[i] \in SUBSET Alternatives
    BY <1>1, <1>2
<1>4. d.kind = "word" => d = Word(d.text)
    BY <1>2, CommandsAssumption
<1> QED
    BY <1>2, <1>3, <1>4

LEMMA WordMatches ==
    ASSUME NEW w, NEW d, d.kind = "word"
    PROVE  /\ Completes(w, d) \in {"no", "partly", "exact"}
           /\ Completes(w, d) = "exact" <=> d.text = w
           /\ d.text # w => (Completes(w, d) = "partly" <=> IsPrefix(w, d.text))
BY DEF Completes

LEMMA OnlyWords ==
    ASSUME NEW w, NEW d, NEW n \in Nodes, NEW c \in CmdVec[n], NEW i \in Nat \ {0}, d \in At(c, i),
           Completes(w, d) \in {"partly", "exact"}
    PROVE  d.kind = "word"
<1>1. d.kind \in {"word", "variable", "option", "range", "vararg"}
    BY InPlace DEF Alternatives
<1> QED
    BY <1>1 DEF Completes

LEMMA PrefixOfItself ==
    ASSUME NEW t \in Seq(Letters)
    PROVE  IsPrefix(t, t)
BY DEF IsPrefix

\* A word typed in full: the commands that have it go on.
LEMMA ExactRound ==
    ASSUME NEW n \in Nodes, NEW m \in Matches(n), NEW w, NEW i,
           m.status = "more", i = m.words + 1, Stands(Word(w), m.left, i)
    PROVE  /\ Typing(m, w) = Narrowed(m, i, Word(w))
           /\ Completing(m, w) = Narrowed(m, i, Word(w))
           /\ Reading(m, w) = Narrowed(m, i, Word(w))
<1>1. ASSUME NEW strict, NEW Ends PROVE Round(strict, Ends, m, w) = Narrowed(m, i, Word(w))
    <2> DEFINE left == Filter(strict, m.left, w, i)
               type == Best(strict, m.left, w, i)
               next == {c \in left : \E d \in At(c, i) : Counts(type, w, d)}
    <2>1. i \in Nat \ {0} /\ m.left \subseteq CmdVec[n]
        BY DEF Matches
    <2>2. PICK b \in m.left : Word(w) \in At(b, i)
        BY DEF Stands
    <2>3. Completes(w, Word(w)) = "exact" /\ \A s : Match(s, w, Word(w)) = "exact"
        BY DEF Word, Completes, Match, Equals
    <2>4. type = "exact"
        <3>1. type \in Ranks /\ Rank["exact"] <= Rank[type]
            BY <2>2, <2>3, BestOf
        <3> QED
            BY <3>1, RanksOf DEF Ranks
    <2>5. ASSUME NEW x \in m.left, NEW d \in At(x, i)
          PROVE  Counts(type, w, d) <=> d = Word(w)
        <3>1. d.kind = "word" => d = Word(d.text)
            BY <2>1, InPlace
        <3>2. Counts(type, w, d) <=> d.kind = "word" /\ Completes(w, d) = "exact"
            BY <2>4 DEF Counts
        <3>3. d = Word(w) => d.kind = "word" /\ d.text = w
            BY DEF Word
        <3> QED
            BY <3>1, <3>2, <3>3, WordMatches
    <2>6. next = Having(m.left, i, Word(w))
        <3>1. \A x \in m.left : Word(w) \in At(x, i) => x \in left
            BY <2>3 DEF Filter
        <3>2. left \subseteq m.left
            BY DEF Filter
        <3> HIDE DEF left, type
        <3> QED
            BY <2>5, <3>1, <3>2 DEF Having
    <2>7. ~ Ambiguous(type, left, w, i)
        BY <2>4 DEF Ambiguous
    <2>8. Round(strict, Ends, m, w) = [m EXCEPT !.words = i, !.left = next]
        <3> HIDE DEF next
        <3>1. next = {c \in left : \E d \in At(c, i) : Counts(type, w, d)}
            BY DEF next
        <3> QED
            BY <2>4, <2>7, <3>1 DEF Round
    <2> QED
        BY <2>6, <2>8 DEF Narrowed
<1> QED
    BY <1>1, Zenon DEF Typing, Completing, Reading

LEMMA ExactStands ==
    ASSUME NEW n \in Nodes, NEW left \in SUBSET CmdVec[n], NEW w, NEW i \in Nat \ {0},
           BestTyped(left, w, i) = "exact"
    PROVE  Stands(Word(w), left, i)
<1> DEFINE type == BestTyped(left, w, i)
<1>1. BestIs(type, left, w, i)
    BY BestCompletes
<1>0. PICK x \in left : \E d \in At(x, i) : Completes(w, d) = "exact"
    BY <1>1 DEF BestIs
<1>2. PICK d \in At(x, i) : Completes(w, d) = "exact"
    BY <1>0
<1>3. x \in CmdVec[n]
    OBVIOUS
<1>4. d.kind = "word"
    BY <1>2, <1>3, OnlyWords
<1>5. d = Word(d.text)
    BY <1>2, <1>3, <1>4, InPlace
<1>6. d = Word(w)
    BY <1>2, <1>4, <1>5, WordMatches
<1> QED
    BY <1>2, <1>6 DEF Stands

\* d is the one word in place i that may be meant by w.
Meant(d, left, w, i) ==
    /\ d = Word(d.text) /\ IsPrefix(w, d.text)
    /\ Stands(d, left, i)
    /\ \A c \in left : \A e \in At(c, i) :
           e.kind = "word" /\ (IsPrefix(w, e.text) \/ e.text = w) => e = d

\* A word abbreviated: it means one word only, or the matching ends.
LEMMA PartlyRound ==
    ASSUME NEW n \in Nodes, NEW m \in Matches(n), NEW w, NEW i, NEW m2,
           m.status = "more", i = m.words + 1, BestTyped(m.left, w, i) = "partly",
           m2 = Typing(m, w) \/ m2 = Completing(m, w),
           m2.status # "AMBIGUOUS"
    PROVE  \E d : Meant(d, m.left, w, i) /\ m2 = Narrowed(m, i, d)
<1> DEFINE left == Filter(FALSE, m.left, w, i)
           type == BestTyped(m.left, w, i)
           next == {c \in left : \E d \in At(c, i) : Counts(type, w, d)}
           counted == {d \in UNION {At(c, i) : c \in left} : Counts(type, w, d)}
<1>0. type = "partly" /\ BestIs(type, m.left, w, i)
    BY BestCompletes
<1>1. i \in Nat \ {0} /\ m.left \subseteq CmdVec[n] /\ left \subseteq m.left
    <2>1. m.words \in Nat /\ m.left \subseteq CmdVec[n]
        BY DEF Matches
    <2>2. left \subseteq m.left
        BY DEF Filter
    <2> HIDE DEF left
    <2> QED
        BY <2>1, <2>2
<1>2. ~ Ambiguous(type, left, w, i)
    <2> SUFFICES ASSUME Ambiguous(type, left, w, i) PROVE FALSE
        OBVIOUS
    <2>1. m2 = [m EXCEPT !.status = "AMBIGUOUS"]
        <3> HIDE DEF next
        <3> QED
            BY <1>0 DEF Round, BestTyped, Typing, Completing
    <2> QED
        BY <2>1 DEF Matches
<1>3. m2 = [m EXCEPT !.words = i, !.left = next]
    BY <1>0, <1>2 DEF Round, BestTyped, Typing, Completing
<1>4. IsFiniteSet(counted) /\ ~ (Cardinality(counted) > 1)
    <2>1. IsFiniteSet(UNION {At(c, i) : c \in left})
        BY <1>1, PlaceIsFinite
    <2>2. IsFiniteSet(counted)
        <3> HIDE DEF left, type
        <3> QED
            BY <2>1, FS_Subset
    <2> QED
        BY <1>0, <1>2, <2>2 DEF Ambiguous
<1>5. ASSUME NEW c \in m.left, NEW e \in At(c, i)
      PROVE  /\ Counts(type, w, e) <=> e.kind = "word" /\ (IsPrefix(w, e.text) \/ e.text = w)
             /\ Counts(type, w, e) => c \in left /\ e \in counted
    <2>1. Completes(w, e) # "exact"
        BY <1>0 DEF BestIs
    <2>2. Counts(type, w, e) <=> e.kind = "word" /\ Completes(w, e) = "partly"
        BY <1>0, <2>1 DEF Counts
    <2>3. Counts(type, w, e) => Match(FALSE, w, e) # "no"
        BY <2>2, MatchType
    <2>4. Counts(type, w, e) => c \in left
        BY <2>3 DEF Filter
    <2> HIDE DEF left, type
    <2> QED
        BY <2>1, <2>2, <2>4, WordMatches
<1>12. \E c \in m.left : \E d \in At(c, i) : Counts(type, w, d)
    <2>0. PICK c \in m.left : \E d \in At(c, i) : Completes(w, d) = "partly"
        BY <1>0 DEF BestIs
    <2>1. PICK d \in At(c, i) : Completes(w, d) = "partly"
        BY <2>0
    <2>2. c \in CmdVec[n]
        BY <1>1
    <2>3. d.kind = "word"
        BY <1>1, <2>1, <2>2, OnlyWords
    <2>4. Counts(type, w, d)
        BY <1>0, <2>1, <2>3 DEF Counts
    <2> QED
        BY <2>1, <2>4
<1>13. PICK c \in m.left : \E d \in At(c, i) : Counts(type, w, d)
    BY <1>12
<1>6. PICK d \in At(c, i) : Counts(type, w, d)
    BY <1>13
<1>7. d = Word(d.text) /\ d.text # w /\ IsPrefix(w, d.text)
    <2>1. d.kind = "word" /\ d = Word(d.text)
        <3>1. d.kind = "word"
            BY <1>5, <1>6
        <3>2. c \in CmdVec[n]
            BY <1>1
        <3>3. d.kind = "word" => d = Word(d.text)
            BY <1>1, <3>2, InPlace
        <3> QED
            BY <3>1, <3>3
    <2>2. d.text # w
        <3> SUFFICES ASSUME d.text = w PROVE FALSE
            OBVIOUS
        <3>1. Completes(w, d) = "exact"
            BY <2>1, WordMatches
        <3> QED
            BY <1>0, <1>6, <3>1 DEF BestIs
    <2> QED
        BY <1>5, <1>6, <2>1, <2>2
<1> HIDE DEF left, type, counted
<1>8. \A x \in m.left : \A e \in At(x, i) : Counts(type, w, e) => e = d
    <2> SUFFICES ASSUME NEW x \in m.left, NEW e \in At(x, i), Counts(type, w, e) PROVE e = d
        OBVIOUS
    <2>1. e \in counted /\ d \in counted
        BY <1>5, <1>6
    <2> QED
        BY <1>4, <2>1, OneOfFew
<1>9. next = Having(m.left, i, d)
    <2>1. \A x \in left : x \in m.left
        BY <1>1
    <2>2. \A x \in m.left : d \in At(x, i) => x \in left
        BY <1>5, <1>6
    <2> QED
        BY <1>6, <1>8, <2>1, <2>2 DEF Having
<1>10. Stands(d, m.left, i)
    BY <1>6 DEF Stands
<1>11. \A x \in m.left : \A e \in At(x, i) :
           e.kind = "word" /\ (IsPrefix(w, e.text) \/ e.text = w) => e = d
    BY <1>5, <1>8
<1> QED
    BY <1>3, <1>7, <1>9, <1>10, <1>11 DEF Narrowed, Meant

\* No word is meant: a configuration file's line is matched in the same way.
LEMMA OtherRound ==
    ASSUME NEW n \in Nodes, NEW m \in Matches(n), NEW w,
           BestTyped(m.left, w, m.words + 1) \notin {"exact", "partly"}
    PROVE  Reading(m, w) = Typing(m, w)
<1> DEFINE i == m.words + 1
<1>1. BestIs(BestTyped(m.left, w, i), m.left, w, i)
    BY BestCompletes
<1>2. \A c \in m.left : \A d \in At(c, i) : Match(TRUE, w, d) = Match(FALSE, w, d)
    <2> SUFFICES ASSUME NEW c \in m.left, NEW d \in At(c, i)
                 PROVE  Match(TRUE, w, d) = Match(FALSE, w, d)
        OBVIOUS
    <2>1. Completes(w, d) # "partly"
        BY <1>1 DEF BestIs
    <2> QED
        BY <2>1, MatchType
<1>3. Filter(TRUE, m.left, w, i) = Filter(FALSE, m.left, w, i)
    BY <1>2 DEF Filter
<1>4. Best(TRUE, m.left, w, i) = Best(FALSE, m.left, w, i)
    <2> DEFINE places == UNION {At(c, i) : c \in m.left}
    <2>1. \A d \in places : Match(TRUE, w, d) = Match(FALSE, w, d)
        BY <1>2
    <2>2. {Match(TRUE, w, d) : d \in places} = {Match(FALSE, w, d) : d \in places}
        <3> HIDE DEF places
        <3> QED
            BY <2>1
    <2> QED
        BY <2>2 DEF Best
<1> QED
    BY <1>3, <1>4 DEF Round, BestTyped, Typing, Reading

\* The words of a command that a typed word may stand for, in one of its places.
LEMMA MeaningsOf ==
    ASSUME NEW n \in Nodes, NEW c \in CmdVec[n], NEW i \in Nat \ {0}, NEW w,
           NEW d \in Meanings(c, w, i)
    PROVE  d \in At(c, i) /\ d = Word(d.text) /\ IsPrefix(w, d.text)
           /\ Completes(w, d) \in {"partly", "exact"}
<1>1. d \in At(c, i) /\ d.kind = "word" /\ IsPrefix(w, d.text)
    BY DEF Meanings
<1>2. d = Word(d.text)
    BY <1>1, InPlace
<1> QED
    BY <1>1, <1>2, WordMatches

WrittenWord(c, w, i) ==
    IF Meanings(c, w, i) = {} THEN w ELSE (CHOOSE d \in Meanings(c, w, i) : TRUE).text

\* The word of the command c written out is matched strictly as the typed word was matched.
LEMMA WrittenRound ==
    ASSUME NEW n \in Nodes, NEW m \in Matches(n), m.status = "more", NEW w, w # <<>>,
           NEW c, c \in Typing(m, w).left,
           Typing(m, w).status # "AMBIGUOUS"
    PROVE  Reading(m, WrittenWord(c, w, m.words + 1)) = Typing(m, w)
<1> DEFINE i == m.words + 1
           v == WrittenWord(c, w, i)
           type == BestTyped(m.left, w, i)
<1>1. m.words \in Nat /\ i \in Nat \ {0} /\ m.left \subseteq CmdVec[n]
    <2>1. m.words \in Nat /\ m.left \subseteq CmdVec[n]
        BY DEF Matches
    <2> QED
        BY <2>1
<1>2. c \in m.left /\ c \in CmdVec[n]
    <2>1. Continues(n, m, Typing(m, w))
        BY RoundKeeps, Zenon DEF Typing
    <2> QED
        BY <1>1, <2>1 DEF Continues
<1>3. BestIs(type, m.left, w, i)
    BY BestCompletes
<1>0. i = m.words + 1 /\ type = BestTyped(m.left, w, i)
    OBVIOUS
<1> HIDE DEF type, i
<1>4. CASE type \notin {"exact", "partly"}
    <2>1. Meanings(c, w, i) = {}
        <3> SUFFICES ASSUME NEW d \in Meanings(c, w, i) PROVE FALSE
            OBVIOUS
        <3>1. d \in At(c, i) /\ Completes(w, d) \in {"partly", "exact"}
            BY <1>1, <1>2, MeaningsOf
        <3> QED
            BY <1>2, <1>3, <1>4, <3>1 DEF BestIs
    <2>2. v = w
        BY <2>1 DEF WrittenWord
    <2> HIDE DEF v
    <2> QED
        BY <1>4, <2>2, OtherRound DEF type, i, v
<1>5. CASE type = "exact"
    <2>3. Stands(Word(w), m.left, i)
        BY <1>0, <1>1, <1>5, ExactStands
    <2>4. /\ Typing(m, w) = Narrowed(m, i, Word(w))
          /\ Reading(m, w) = Narrowed(m, i, Word(w))
        BY <1>0, <2>3, ExactRound
    <2>5. Word(w) \in At(c, i)
        <3>1. c \in Having(m.left, i, Word(w))
            BY <2>4 DEF Matches, Narrowed
        <3> QED
            BY <3>1 DEF Having
    <2>6. v = w
        <3> SUFFICES ASSUME NEW e \in Meanings(c, w, i) PROVE e = Word(w)
            <4>1. \A e \in Meanings(c, w, i) : e.text = w
                BY DEF Word
            <4> QED
                BY <4>1 DEF WrittenWord
        <3>1. e \in At(c, i) /\ e = Word(e.text) /\ IsPrefix(w, e.text)
            BY <1>1, <1>2, MeaningsOf
        <3>2. i \in 1 .. Len(c) /\ e \in c[i] /\ Word(w) \in c[i]
            BY <1>1, <1>2, <2>5, <3>1, InPlace
        <3>3. Word(w).kind = "word" /\ Word(w).text = w /\ e.kind = "word"
            BY <3>1 DEF Word
        <3> QED
            BY <1>2, <3>1, <3>2, <3>3, PlacesAssumption
    <2> QED
        BY <2>4, <2>6 DEF i
<1>6. CASE type = "partly"
    <2> DEFINE m2 == Typing(m, w)
    <2>0. m2 = Typing(m, w) /\ m2.status # "AMBIGUOUS" /\ c \in m2.left
        OBVIOUS
    <2> HIDE DEF m2
    <2>1. PICK d : Meant(d, m.left, w, i) /\ m2 = Narrowed(m, i, d)
        BY <1>0, <1>6, <2>0, PartlyRound
    <2>2. d \in At(c, i)
        <3>1. c \in Having(m.left, i, d)
            BY <2>0, <2>1 DEF Matches, Narrowed
        <3> QED
            BY <3>1 DEF Having
    <2>3. Meanings(c, w, i) = {d}
        <3>1. d.kind = "word"
            BY <2>1 DEF Word, Meant
        <3>2. \A e \in Meanings(c, w, i) : e = d
            BY <1>2, <2>1 DEF Meanings, Meant
        <3>3. d \in Meanings(c, w, i)
            BY <2>1, <2>2, <3>1 DEF Meanings, Meant
        <3> QED
            BY <3>2, <3>3
    <2>4. v = d.text
        BY <2>3 DEF WrittenWord
    <2>5. Stands(Word(d.text), m.left, i)
        BY <2>1 DEF Meant
    <2>6. Reading(m, d.text) = Narrowed(m, i, Word(d.text))
        BY <1>0, <2>5, ExactRound
    <2> QED
        BY <2>0, <2>1, <2>4, <2>6 DEF i, Meant
<1> QED
    BY <1>4, <1>5, <1>6
-----------------------------------------------------------------------------
(* A line.                                                                 *)

LEMMA LenOfWritten ==
    ASSUME NEW c, NEW l, Len(l) \in Nat
    PROVE  /\ Len(WrittenOut(c, l)) = Len(l)
           /\ \A i \in 1 .. Len(l) : WrittenOut(c, l)[i] = WrittenWord(c, l[i], i)
<1> DEFINE v == WrittenOut(c, l)
           S == {WrittenWord(c, l[i], i) : i \in 1 .. Len(l)}
<1>1. v = [i \in 1 .. Len(l) |-> WrittenWord(c, l[i], i)]
    BY DEF WrittenOut, WrittenWord
<1>2. v \in [1 .. Len(l) -> S]
    BY <1>1
<1>3. v \in Seq(S)
    BY <1>2
<1>4. DOMAIN v = 1 .. Len(v) /\ Len(v) \in Nat
    <2> HIDE DEF v, S
    <2> QED
        BY <1>3
<1> HIDE DEF v, S
<1>5. 1 .. Len(v) = 1 .. Len(l)
    BY <1>2, <1>4
<1>6. Len(v) = Len(l)
    BY <1>4, <1>5
<1> QED
    BY <1>1, <1>6 DEF v

\* f tells how l is matched, which ends with c among the commands left.
RanBy(f, n, l, c) ==
    /\ Rounds(f, FALSE, TRUE, n, l)
    /\ f[Len(l)].status # "AMBIGUOUS"
    /\ c \in f[Len(l)].left

\* Its round of the word k.
RunRound(f, n, l, c, k) ==
    /\ f[k] = Typing(f[k - 1], l[k])
    /\ f[k - 1] \in Matches(n) /\ f[k] \in Matches(n)
    /\ f[k - 1].status = "more" => f[k - 1].words = k - 1
    /\ f[k].status # "AMBIGUOUS" /\ f[k - 1].status # "AMBIGUOUS"
    /\ f[k - 1].status # "more" => f[k] = f[k - 1]
    /\ c \in f[k].left /\ c \in f[k - 1].left
    /\ f[k].status = "vararg" => f[k] = f[Len(l)]

LEMMA EveryRunRound ==
    ASSUME NEW n \in Nodes, NEW l, NEW f, NEW c, NEW k \in 1 .. Len(l), Len(l) \in Nat,
           RanBy(f, n, l, c)
    PROVE  RunRound(f, n, l, c, k)
<1>0. k - 1 \in 0 .. Len(l) /\ k \in 0 .. Len(l) /\ k \in k - 1 .. Len(l)
    OBVIOUS
<1>1. Rounds(f, FALSE, TRUE, n, l)
    BY DEF RanBy
<1>2. f[k] = Typing(f[k - 1], l[k])
    BY <1>1 DEF Rounds, Typing
<1>3. Orderly(f, n, l)
    BY <1>1, RoundsAreOrderly
<1>5. \A x \in 0 .. Len(l) : f[x].status # "AMBIGUOUS" /\ c \in f[x].left
    <2> SUFFICES ASSUME NEW x \in 0 .. Len(l)
                 PROVE  f[x].status # "AMBIGUOUS" /\ c \in f[x].left
        OBVIOUS
    <2>1. Len(l) \in x .. Len(l)
        OBVIOUS
    <2>2. f[Len(l)].left \subseteq f[x].left /\ (f[x].status # "more" => f[Len(l)] = f[x])
        BY <1>3, <2>1 DEF Orderly, Keeps
    <2> QED
        BY <2>2 DEF RanBy
<1>6. f[k].status = "vararg" => f[k] = f[Len(l)]
    <2>1. Len(l) \in k .. Len(l)
        OBVIOUS
    <2> QED
        BY <1>0, <1>3, <2>1 DEF Orderly, Keeps
<1>7. f[k - 1].status # "more" => f[k] = f[k - 1]
    BY <1>0, <1>3 DEF Orderly, Keeps
<1>8. /\ f[k - 1] \in Matches(n) /\ f[k] \in Matches(n)
      /\ f[k - 1].status = "more" => f[k - 1].words = k - 1
    BY <1>0, <1>3 DEF Orderly, Keeps
<1> QED
    BY <1>0, <1>2, <1>5, <1>6, <1>7, <1>8 DEF RunRound

\* With the words written out a configuration file's line is matched as the typed line was.
LEMMA WrittenOutMatches ==
    ASSUME NEW n \in Nodes, NEW l, NEW c, Len(l) \in Nat, \A i \in 1 .. Len(l) : l[i] # <<>>,
           c \in Matched(FALSE, TRUE, n, l).left, Matched(FALSE, TRUE, n, l).status # "AMBIGUOUS"
    PROVE  Matched(TRUE, TRUE, n, WrittenOut(c, l)) = Matched(FALSE, TRUE, n, l)
<1> DEFINE v == WrittenOut(c, l)
<1>1. Len(v) = Len(l) /\ \A i \in 1 .. Len(l) : v[i] = WrittenWord(c, l[i], i)
    <2> HIDE DEF v
    <2>1. v = WrittenOut(c, l)
        BY DEF v
    <2> QED
        BY <2>1, LenOfWritten, Zenon
<1> HIDE DEF v
<1>2. PICK f : Rounds(f, FALSE, TRUE, n, l) /\ Matched(FALSE, TRUE, n, l) = f[Len(l)]
    BY MatchedIsLast, Zenon
<1>10. Len(v) \in Nat
    BY <1>1
<1>3. PICK g : Rounds(g, TRUE, TRUE, n, v) /\ Matched(TRUE, TRUE, n, v) = g[Len(v)]
    BY <1>10, MatchedIsLast, Zenon
<1>4. RanBy(f, n, l, c)
    BY <1>2 DEF RanBy
<1> DEFINE T == {k \in Nat : k <= Len(l) => g[k] = f[k]}
<1>5. 0 \in T
    BY <1>2, <1>3 DEF Rounds
<1>6. ASSUME NEW k \in Nat, k \in T PROVE k + 1 \in T
    <2> SUFFICES ASSUME k + 1 <= Len(l) PROVE g[k + 1] = f[k + 1]
        OBVIOUS
    <2>1. PICK j \in 1 .. Len(l) : j = k + 1 /\ j - 1 = k
        OBVIOUS
    <2>2. g[j - 1] = f[j - 1]
        BY <1>6, <2>1
    <2>3. RunRound(f, n, l, c, j)
        BY <1>4, EveryRunRound
    <2>4. g[j] = Reading(f[j - 1], v[j])
        BY <1>1, <1>3, <2>2 DEF Rounds, Reading
    <2>5. CASE f[j - 1].status # "more"
        <3>1. g[j] = f[j - 1]
            BY <2>4, <2>5 DEF Reading, Round
        <3> QED
            BY <2>1, <2>3, <2>5, <3>1 DEF RunRound
    <2>6. CASE f[j - 1].status = "more"
        <3>1. v[j] = WrittenWord(c, l[j], f[j - 1].words + 1)
            BY <1>1, <2>3, <2>6 DEF RunRound
        <3>2. Reading(f[j - 1], v[j]) = Typing(f[j - 1], l[j])
            BY <2>3, <2>6, <3>1, WrittenRound DEF RunRound
        <3> QED
            BY <2>1, <2>3, <2>4, <3>2 DEF RunRound
    <2> QED
        BY <2>5, <2>6
<1>7. Len(l) \in T
    <2> HIDE DEF T
    <2> QED
        BY <1>5, <1>6, ByCounting
<1>8. Len(l) <= Len(l)
    OBVIOUS
<1>9. g[Len(l)] = f[Len(l)]
    BY <1>7, <1>8
<1> QED
    BY <1>1, <1>2, <1>3, <1>9, Zenon DEF v

\* A command that has the same alternatives in its place is left as c is.
LEMMA SameNext ==
    ASSUME NEW n \in Nodes, NEW m \in Matches(n), NEW w, NEW c, NEW o, NEW i,
           m.status = "more", i = m.words + 1, At(o, i) = At(c, i), o \in m.left,
           Typing(m, w).status # "AMBIGUOUS", c \in Typing(m, w).left
    PROVE  o \in Typing(m, w).left
<1> DEFINE left == Filter(FALSE, m.left, w, i)
           type == Best(FALSE, m.left, w, i)
           next == {x \in left : \E d \in At(x, i) : Counts(type, w, d)}
<1>1. c \in left => o \in left
    BY DEF Filter
<1>2. c \in next => o \in next
    BY <1>1
<1>3. \/ Typing(m, w) = [m EXCEPT !.left = left, !.status = "vararg"]
      \/ Typing(m, w) = [m EXCEPT !.words = i, !.left = next]
    <2> HIDE DEF next
    <2>1. next = {x \in left : \E d \in At(x, i) : Counts(type, w, d)}
        BY DEF next
    <2>2. \/ Typing(m, w) = [m EXCEPT !.left = left, !.status = "vararg"]
          \/ Typing(m, w) = [m EXCEPT !.status = "AMBIGUOUS"]
          \/ Typing(m, w) = [m EXCEPT !.words = i, !.left = next]
        BY <2>1 DEF Typing, Round
    <2> HIDE DEF left
    <2> QED
        BY <2>2 DEF Matches
<1> HIDE DEF left, next
<1> QED
    BY <1>1, <1>2, <1>3 DEF Matches

\* A line that comes to c means no command that begins as c does and goes on otherwise.
LEMMA MeansNoOther ==
    ASSUME NEW n \in Nodes, NEW l, NEW f, NEW c, NEW o \in CmdVec[n], NEW i \in 1 .. Len(l),
           NEW d \in Meanings(o, l[i], i),
           Len(l) \in Nat, RanBy(f, n, l, c),
           f[Len(l)].status = "vararg" => f[Len(l)].left = {c},
           \A j \in 1 .. i - 1 : At(o, j) = At(c, j)
    PROVE  d \in At(c, i) \/ Word(l[i]) \in At(c, i)
<1> DEFINE T == {k \in Nat : k <= i - 1 => o \in f[k].left}
<1>1. 0 \in T
    BY DEF RanBy, Rounds, Begin
<1>2. ASSUME NEW k \in Nat, k \in T PROVE k + 1 \in T
    <2> SUFFICES ASSUME k + 1 <= i - 1 PROVE o \in f[k + 1].left
        OBVIOUS
    <2>1. PICK j \in 1 .. Len(l) : j = k + 1 /\ j - 1 = k /\ j \in 1 .. i - 1
        OBVIOUS
    <2>2. o \in f[j - 1].left
        BY <1>2, <2>1
    <2>3. RunRound(f, n, l, c, j)
        BY EveryRunRound
    <2>4. CASE f[j - 1].status # "more"
        BY <2>1, <2>2, <2>3, <2>4 DEF RunRound
    <2>5. CASE f[j - 1].status = "more"
        <3>1. j = f[j - 1].words + 1 /\ At(o, j) = At(c, j)
            BY <2>1, <2>3, <2>5 DEF RunRound
        <3>2. /\ Typing(f[j - 1], l[j]).status # "AMBIGUOUS" /\ c \in Typing(f[j - 1], l[j]).left
              /\ f[j - 1] \in Matches(n)
            BY <2>3 DEF RunRound
        <3>3. o \in Typing(f[j - 1], l[j]).left
            BY <2>2, <2>5, <3>1, <3>2, SameNext
        <3> QED
            BY <2>1, <2>3, <3>3 DEF RunRound
    <2> QED
        BY <2>4, <2>5
<1>3. i - 1 \in T
    <2> HIDE DEF T
    <2>1. i - 1 \in Nat
        OBVIOUS
    <2> QED
        BY <1>1, <1>2, <2>1, ByCounting
<1>4. o \in f[i - 1].left
    BY <1>3
<1>5. RunRound(f, n, l, c, i)
    BY EveryRunRound
<1>6. d \in At(o, i)
    BY DEF Meanings
<1>7. CASE f[i - 1].status # "more"
    <2>1. f[i - 1].status \in Statuses /\ f[i] = f[i - 1]
        BY <1>5, <1>7 DEF RunRound, Matches
    <2>2. f[i].status = "vararg"
        BY <1>5, <1>7, <2>1 DEF RunRound, Statuses
    <2>3. f[i] = f[Len(l)] /\ f[Len(l)].left = {c}
        BY <1>5, <2>2 DEF RunRound
    <2> QED
        BY <1>4, <1>6, <2>1, <2>3
<1>8. CASE f[i - 1].status = "more"
    <2> DEFINE m == f[i - 1]
               m2 == f[i]
               w == l[i]
               type == BestTyped(m.left, w, i)
    <2>1. /\ m \in Matches(n) /\ i = m.words + 1 /\ m2 = Typing(m, w) /\ m.status = "more"
          /\ m2.status # "AMBIGUOUS" /\ c \in m2.left /\ m.left \in SUBSET CmdVec[n]
          /\ i \in Nat \ {0}
        BY <1>5, <1>8 DEF RunRound, Matches
    <2>2. BestIs(type, m.left, w, i)
        BY BestCompletes
    <2>3. o \in m.left /\ d \in Meanings(o, w, i)
        BY <1>4
    <2>4. type = BestTyped(m.left, w, i)
        OBVIOUS
    <2> HIDE DEF type, m, m2, w
    <2>5. d \in At(o, i) /\ d = Word(d.text) /\ IsPrefix(w, d.text)
          /\ Completes(w, d) \in {"partly", "exact"}
        BY <2>1, <2>3, MeaningsOf
    <2>6. type \in {"partly", "exact"}
        BY <2>2, <2>3, <2>5 DEF BestIs
    <2>7. CASE type = "exact"
        <3>1. Stands(Word(w), m.left, i)
            BY <2>1, <2>4, <2>7, ExactStands
        <3>2. Typing(m, w) = Narrowed(m, i, Word(w))
            BY <2>1, <3>1, ExactRound
        <3>3. c \in Having(m.left, i, Word(w))
            BY <2>1, <3>2 DEF Matches, Narrowed
        <3> QED
            BY <3>3 DEF Having, w
    <2>8. CASE type = "partly"
        <3>0. /\ m \in Matches(n) /\ m.status = "more" /\ i = m.words + 1
              /\ BestTyped(m.left, w, i) = "partly" /\ m2 = Typing(m, w) /\ m2.status # "AMBIGUOUS"
            BY <2>1, <2>4, <2>8
        <3>1. PICK e : Meant(e, m.left, w, i) /\ m2 = Narrowed(m, i, e)
            BY <3>0, PartlyRound
        <3>2. e \in At(c, i)
            <4>1. c \in Having(m.left, i, e)
                BY <2>1, <3>1 DEF Matches, Narrowed
            <4> QED
                BY <4>1 DEF Having
        <3>3. d.kind = "word"
            BY <2>5 DEF Word
        <3>4. d = e
            BY <2>3, <2>5, <3>1, <3>3 DEF Meant
        <3> QED
            BY <3>2, <3>4
    <2> QED
        BY <2>6, <2>7, <2>8
<1> QED
    BY <1>7, <1>8

LEMMA ExecutedIsVerdict ==
    ASSUME NEW n, NEW l
    PROVE  /\ Executed(FALSE, n, l) = Verdict(Matched(FALSE, TRUE, n, l), Len(l))
           /\ Executed(TRUE, n, l) = Verdict(Matched(TRUE, TRUE, n, l), Len(l))
BY DEF Executed

LEMMA MatchedType ==
    ASSUME NEW n \in Nodes, NEW l, Len(l) \in Nat
    PROVE  /\ Matched(FALSE, TRUE, n, l) \in Matches(n)
           /\ Matched(FALSE, FALSE, n, l) \in Matches(n)
           /\ Matched(FALSE, TRUE, n, l).status = "more"
                 => Matched(FALSE, TRUE, n, l).words = Len(l)
           /\ Matched(FALSE, FALSE, n, l).status = "more"
                 => Matched(FALSE, FALSE, n, l).words = Len(l)
<1>0. Len(l) \in 0 .. Len(l)
    OBVIOUS
<1>1. PICK f : Rounds(f, FALSE, TRUE, n, l) /\ Matched(FALSE, TRUE, n, l) = f[Len(l)]
    BY MatchedIsLast, Zenon
<1>2. PICK g : Rounds(g, FALSE, FALSE, n, l) /\ Matched(FALSE, FALSE, n, l) = g[Len(l)]
    BY MatchedIsLast, Zenon
<1>3. Orderly(f, n, l) /\ Orderly(g, n, l)
    BY <1>1, <1>2, RoundsAreOrderly
<1>4. /\ f[Len(l)] \in Matches(n) /\ (f[Len(l)].status = "more" => f[Len(l)].words = Len(l))
      /\ g[Len(l)] \in Matches(n) /\ (g[Len(l)].status = "more" => g[Len(l)].words = Len(l))
    BY <1>0, <1>3 DEF Orderly
<1> QED
    BY <1>1, <1>2, <1>4, Zenon

OnlyRun(m, k, c) ==
    /\ m.status # "AMBIGUOUS"
    /\ c \in m.left
    /\ m.status = "vararg" \/ k >= CmdSize(c)
    /\ m.status = "vararg" => m.left = {c}

\* The command that is run is the only one that the line can be.
LEMMA VerdictOfRun ==
    ASSUME NEW n \in Nodes, NEW m \in Matches(n), NEW k,
           Verdict(m, k).status = "SUCCESS"
    PROVE  OnlyRun(m, k, Verdict(m, k).command)
<1> DEFINE matched == {c \in m.left : m.status = "vararg" \/ k >= CmdSize(c)}
           c == CHOOSE x \in matched : TRUE
<1>1. m.status # "AMBIGUOUS" /\ ~ (Cardinality(matched) > 1) /\ matched # {}
      /\ Verdict(m, k).command = c
    BY DEF Verdict
<1>2. c \in matched
    <2> HIDE DEF matched
    <2> QED
        BY <1>1
<1>3. IsFiniteSet(matched)
    <2>1. IsFiniteSet(CmdVec[n]) /\ m.left \in SUBSET CmdVec[n]
        BY CommandsAssumption DEF Matches
    <2>2. matched \in SUBSET CmdVec[n]
        BY <2>1
    <2> HIDE DEF matched
    <2> QED
        BY <2>1, <2>2, FS_Subset
<1>4. \A x \in matched : x = c
    <2> HIDE DEF matched, c
    <2> QED
        BY <1>1, <1>2, <1>3, OneOfFew
<1>5. m.status = "vararg" => m.left = {c}
    <2>1. m.status = "vararg" => matched = m.left
        OBVIOUS
    <2> HIDE DEF matched, c
    <2> QED
        BY <1>2, <1>4, <2>1
<1> QED
    BY <1>1, <1>2, <1>5 DEF OnlyRun

\* The line l names the command c of the node n, and no other.
Names(n, l, c) ==
    /\ Executed(TRUE, n, WrittenOut(c, l)).command = c
    /\ \A o \in CmdVec[n], i \in 1 .. Len(l) :
         (\A j \in 1 .. i - 1 : At(o, j) = At(c, j))
            => \A d \in Meanings(o, l[i], i) : d \in At(c, i) \/ Word(l[i]) \in At(c, i)

\* The property, of every line of a node.
LEMMA NothingGuessed ==
    ASSUME NEW n \in Nodes, NEW l, NEW c,
           Len(l) \in Nat, \A i \in 1 .. Len(l) : l[i] # <<>>,
           Executed(FALSE, n, l).status = "SUCCESS", c = Executed(FALSE, n, l).command
    PROVE  Names(n, l, c)
<1>1. PICK f : Rounds(f, FALSE, TRUE, n, l) /\ Matched(FALSE, TRUE, n, l) = f[Len(l)]
    BY MatchedIsLast, Zenon
<1>2. f[Len(l)] \in Matches(n)
    BY <1>1, MatchedType
<1>3. Verdict(f[Len(l)], Len(l)).status = "SUCCESS" /\ c = Verdict(f[Len(l)], Len(l)).command
    BY <1>1, ExecutedIsVerdict
<1>4. /\ f[Len(l)].status # "AMBIGUOUS" /\ c \in f[Len(l)].left
      /\ f[Len(l)].status = "vararg" => f[Len(l)].left = {c}
    <2>1. OnlyRun(f[Len(l)], Len(l), c)
        BY <1>2, <1>3, VerdictOfRun
    <2> QED
        BY <2>1 DEF OnlyRun
<1>5. RanBy(f, n, l, c)
    BY <1>1, <1>4 DEF RanBy
<1>6. Executed(TRUE, n, WrittenOut(c, l)).command = c
    <2>1. Matched(TRUE, TRUE, n, WrittenOut(c, l)) = f[Len(l)]
        BY <1>1, <1>4, WrittenOutMatches
    <2>2. Len(WrittenOut(c, l)) = Len(l)
        BY LenOfWritten
    <2>3. Executed(TRUE, n, WrittenOut(c, l)) = Verdict(f[Len(l)], Len(l))
        BY <2>1, <2>2, ExecutedIsVerdict
    <2> QED
        BY <1>3, <2>3
<1>7. ASSUME NEW o \in CmdVec[n], NEW i \in 1 .. Len(l), NEW d \in Meanings(o, l[i], i),
             \A j \in 1 .. i - 1 : At(o, j) = At(c, j)
      PROVE  d \in At(c, i) \/ Word(l[i]) \in At(c, i)
    BY <1>4, <1>5, <1>7, MeansNoOther
<1> QED
    BY <1>6, <1>7 DEF Names
-----------------------------------------------------------------------------
(* The line.                                                               *)

Words == Seq(Letters) \ {<<>>}

\* The line is of words that are not empty, in a node there is.
LineInv == node \in Nodes /\ line \in Seq(Words) /\ space \in BOOLEAN /\ (space => line # <<>>)

\* The same of what is matched of it.
LEMMA HereType ==
    ASSUME NEW n \in Nodes, NEW l \in Seq(Words)
    PROVE  InNode(n, l) \in Nodes /\ WordsOf(n, l) \in Seq(Words)
<1>1. InNode(n, l) \in Nodes
    BY NodesAssumption DEF InNode
<1>2. l # <<>> => Tail(l) \in Seq(Words)
    OBVIOUS
<1> QED
    BY <1>1, <1>2 DEF WordsOf, IsDo

\* Words in a place of commands of a node.
LEMMA TextOfPlace ==
    ASSUME NEW n \in Nodes, NEW left \in SUBSET CmdVec[n], NEW i \in Nat \ {0},
           NEW d \in UNION {At(c, i) : c \in left}
    PROVE  d.text \in Seq(Letters)
<1>1. PICK c \in left : d \in At(c, i)
    OBVIOUS
<1>2. c \in CmdVec[n]
    OBVIOUS
<1>3. d \in Alternatives
    BY <1>1, <1>2, InPlace
<1> QED
    BY <1>3 DEF Alternatives

LEMMA FollowingType ==
    ASSUME NEW n \in Nodes, NEW l, Len(l) \in Nat
    PROVE  \A d \in Following(n, l) : d.text \in Seq(Letters)
<1> DEFINE left == Matched(FALSE, TRUE, n, l).left
           i == Len(l) + 1
<1>1. i \in Nat \ {0}
    OBVIOUS
<1>2. left \in SUBSET CmdVec[n]
    <2>1. Matched(FALSE, TRUE, n, l) \in Matches(n)
        BY MatchedType
    <2> QED
        BY <2>1 DEF Matches
<1>3. Following(n, l) \subseteq UNION {At(c, i) : c \in left}
    BY DEF Following
<1> HIDE DEF left, i
<1> QED
    BY <1>1, <1>2, <1>3, TextOfPlace

LEMMA TypedType ==
    ASSUME LineInv
    PROVE  Typed \subseteq Words
<1> DEFINE n == InNode(node, line)
           here == WordsOf(node, line)
           Texts == Following(n, here) \cup (IF node = "VTY" THEN Following("CONFIG", line) ELSE {})
<1>1. n \in Nodes /\ here \in Seq(Words) /\ "CONFIG" \in Nodes /\ line \in Seq(Words)
    BY HereType, NodesAssumption DEF LineInv
<1>2. Len(here) \in Nat /\ Len(line) \in Nat
    BY <1>1, LenProperties
<1>3. \A d \in Following(n, here) : d.text \in Seq(Letters)
    BY <1>1, <1>2, FollowingType
<1>4. \A d \in Following("CONFIG", line) : d.text \in Seq(Letters)
    BY <1>1, <1>2, FollowingType
<1>5. \A t \in Seq(Letters) : Abbreviations(t) \subseteq Words
    <2> SUFFICES ASSUME NEW t \in Seq(Letters), NEW k \in 1 .. Len(t)
                 PROVE  SubSeq(t, 1, k) \in Words
        BY DEF Abbreviations
    <2>1. SubSeq(t, 1, k) \in Seq(Letters) /\ Len(SubSeq(t, 1, k)) = k
        <3>1. Len(t) \in Nat
            OBVIOUS
        <3>2. 1 \in 1 .. Len(t) + 1 /\ k \in 0 .. Len(t)
            BY <3>1
        <3> QED
            BY <3>2, SubSeqProperties
    <2>2. Len(<<>>) = 0
        OBVIOUS
    <2> QED
        BY <2>1, <2>2 DEF Words
<1>6. UNION {Abbreviations(d.text) : d \in Texts} \subseteq Words
    <2>1. \A d \in Texts : d.text \in Seq(Letters)
        BY <1>3, <1>4
    <2> HIDE DEF Texts
    <2> QED
        BY <1>5, <2>1
<1>7. Typed = Others \cup {Do} \cup UNION {Abbreviations(d.text) : d \in Texts}
    BY DEF Typed
<1> HIDE DEF Texts
<1> QED
    BY <1>6, <1>7, TypedAssumption DEF Words

LEMMA PrefixOfEmpty ==
    ASSUME NEW w \in Seq(Letters)
    PROVE  /\ IsPrefix(w, <<>>) => w = <<>>
           /\ IsPrefix(<<>>, w)
<1>1. Len(<<>>) = 0 /\ Len(w) \in Nat /\ (w # <<>> => Len(w) > 0)
    BY EmptySeq
<1>2. IsPrefix(w, <<>>) => w = <<>>
    BY <1>1 DEF IsPrefix
<1>3. SubSeq(<<>>, 1, 0) = <<>> /\ SubSeq(w, 1, 0) = <<>>
    BY SubSeqEmpty
<1>4. IsPrefix(<<>>, w)
    BY <1>1, <1>3 DEF IsPrefix
<1> QED
    BY <1>2, <1>4

LEMMA LastType ==
    ASSUME NEW S, NEW l \in Seq(S), l # <<>>
    PROVE  Last(l) \in S /\ Front(l) \in Seq(S) /\ Len(Front(l)) = Len(l) - 1
<1>1. Len(l) \in Nat /\ Len(l) # 0
    BY EmptySeq
<1>2. Last(l) \in S
    BY <1>1 DEF Last
<1>3. Front(l) \in Seq(S) /\ Len(Front(l)) = Len(l) - 1
    <2> DEFINE k == Len(l) - 1
    <2>1. 1 \in Int /\ k \in Int /\ k \in Nat /\ \A i \in 1 .. k : l[i] \in S
        BY <1>1
    <2>2. Front(l) = SubSeq(l, 1, k)
        BY DEF Front
    <2> HIDE DEF k
    <2>3. SubSeq(l, 1, k) \in Seq(S) /\ Len(SubSeq(l, 1, k)) = IF 1 <= k THEN k - 1 + 1 ELSE 0
        BY <2>1, SubSeqProperties
    <2>4. Front(l) \in Seq(S) /\ Len(Front(l)) = k
        BY <2>1, <2>2, <2>3
    <2> QED
        BY <2>4 DEF k
<1> QED
    BY <1>2, <1>3

\* What may stand at the end of the line: words, one of which is not empty if any.
CompletionsOK(texts) ==
    /\ texts \subseteq Seq(Letters) /\ IsFiniteSet(texts)
    /\ <<>> \in texts => \E t \in texts : t # <<>>

LEMMA TextsAreFinite ==
    ASSUME NEW E, IsFiniteSet(E)
    PROVE  IsFiniteSet({d.text : d \in E})
<1> DEFINE f == [d \in E |-> d.text]
           T == {d.text : d \in E}
<1>1. f \in Surjection(E, T)
    BY DEF Surjection
<1> HIDE DEF f, T
<1>2. IsFiniteSet(T)
    BY <1>1, FS_Surjection
<1> QED
    BY <1>2 DEF T

\* What may stand at the end of the line, when w is typed of it.
LEMMA CompletedType ==
    ASSUME NEW n \in Nodes, NEW l \in Seq(Words), NEW k, NEW w \in Seq(Letters), k = Len(l)
    PROVE  CompletionsOK(CompletedAfter(Matched(FALSE, FALSE, n, l), k, w))
<1> DEFINE m == Matched(FALSE, FALSE, n, l)
           i == k + 1
           E == {e \in UNION {At(c, i) : c \in m.left} : e.kind = "word" /\ IsPrefix(w, e.text)}
           texts == CompletedAfter(m, k, w)
<1>1. CASE m.status = "AMBIGUOUS"
    <2>1. texts = {}
        BY <1>1 DEF CompletedAfter
    <2> QED
        BY <2>1, FS_EmptySet DEF CompletionsOK
<1>2. CASE m.status # "AMBIGUOUS"
    <2>1. texts = {d.text : d \in E}
        BY <1>2 DEF CompletedAfter
    <2>2. Len(l) \in Nat /\ i \in Nat \ {0}
        BY LenProperties
    <2>3. m.left \in SUBSET CmdVec[n]
        <3>1. m \in Matches(n)
            BY <2>2, MatchedType
        <3> QED
            BY <3>1 DEF Matches
    <2> HIDE DEF m, i, texts
    <2>4. IsFiniteSet(E)
        <3>1. IsFiniteSet(UNION {At(c, i) : c \in m.left})
            BY <2>2, <2>3, PlaceIsFinite
        <3>2. E \in SUBSET UNION {At(c, i) : c \in m.left}
            OBVIOUS
        <3> HIDE DEF E
        <3> QED
            BY <3>1, <3>2, FS_Subset
    <2>5. IsFiniteSet(texts)
        <3> HIDE DEF E
        <3> QED
            BY <2>1, <2>4, TextsAreFinite
    <2>6. texts \subseteq Seq(Letters)
        <3>1. \A d \in E : d.text \in Seq(Letters)
            BY <2>2, <2>3, TextOfPlace
        <3> HIDE DEF E
        <3> QED
            BY <2>1, <3>1
    <2>7. ASSUME <<>> \in texts PROVE \E t \in texts : t # <<>>
        <3>1. PICK d \in E : d.text = <<>>
            BY <2>1, <2>7
        <3>2. PICK c \in m.left : d \in At(c, i)
            OBVIOUS
        <3>3. c \in CmdVec[n] /\ d.kind = "word" /\ IsPrefix(w, <<>>)
            BY <2>3, <3>1
        <3>4. i \in 1 .. Len(c) /\ d \in c[i] /\ d = Word(<<>>)
            BY <2>2, <3>1, <3>2, <3>3, InPlace
        <3>5. PICK e \in c[i] : e.kind = "word" /\ e.text # <<>>
            BY <3>3, <3>4, PlacesAssumption
        <3>6. w = <<>>
            BY <3>3, PrefixOfEmpty
        <3>7. e \in At(c, i)
            BY <3>4 DEF At
        <3>8. e.text \in Seq(Letters)
            BY <2>2, <2>3, <3>7, TextOfPlace
        <3>9. e \in E
            BY <3>5, <3>6, <3>7, <3>8, PrefixOfEmpty
        <3> HIDE DEF E
        <3> QED
            BY <2>1, <3>5, <3>9
    <2> QED
        BY <2>5, <2>6, <2>7 DEF CompletionsOK, texts, m
<1> QED
    BY <1>1, <1>2

LEMMA CompletionsType ==
    ASSUME LineInv, line # <<>>
    PROVE  CompletionsOK(Completions(node, line, space))
<1> DEFINE n == InNode(node, line)
           words == WordsOf(node, line)
<1>1. n \in Nodes /\ words \in Seq(Words)
    BY HereType DEF LineInv
<1>2. Completions(node, line, space) = CompletionsIn(n, words, space)
    BY DEF Completions
<1> HIDE DEF n, words
<1>3. CASE space
    <2>1. CompletionsOK(CompletedAfter(Matched(FALSE, FALSE, n, words), Len(words), <<>>))
        <3>1. <<>> \in Seq(Letters)
            BY EmptySeq
        <3> QED
            BY <1>1, <3>1, CompletedType, Zenon
    <2> QED
        BY <1>2, <1>3, <2>1, Zenon DEF CompletionsIn
<1>4. CASE ~space /\ words = <<>>
    <2>1. CompletionsIn(n, words, space) = {}
        BY <1>4 DEF CompletionsIn
    <2> QED
        BY <1>2, <2>1, FS_EmptySet DEF CompletionsOK
<1>5. CASE ~space /\ words # <<>>
    <2>1. Last(words) \in Seq(Letters) /\ Front(words) \in Seq(Words)
        BY <1>1, <1>5, LastType DEF Words
    <2>2. Len(words) - 1 = Len(Front(words))
        BY <1>1, <1>5, LastType
    <2>3. CompletionsOK(CompletedAfter(Matched(FALSE, FALSE, n, Front(words)), Len(words) - 1,
                                       Last(words)))
        BY <1>1, <2>1, <2>2, CompletedType, Zenon
    <2> QED
        BY <1>2, <1>5, <2>3, Zenon DEF CompletionsIn
<1> QED
    BY <1>3, <1>4, <1>5

LEMMA LcdType ==
    ASSUME NEW texts \in SUBSET Seq(Letters), texts # {}
    PROVE  Lcd(texts) \in Seq(Letters)
<1> DEFINE t == CHOOSE s \in texts : TRUE
           Common(k) == \A s \in texts : IsPrefix(SubSeq(t, 1, k), s)
           Longest(k) ==
               Common(k) /\ (k = Len(t) \/ \E s \in texts : ~ IsPrefix(SubSeq(t, 1, k + 1), s))
           len == CHOOSE k \in 0 .. Len(t) : Longest(k)
<1>1. t \in texts /\ t \in Seq(Letters) /\ Len(t) \in Nat
    OBVIOUS
<1> HIDE DEF t
<1>2. \E k \in 0 .. Len(t) : Longest(k)
    <2> SUFFICES ASSUME \A k \in 0 .. Len(t) : ~ Longest(k) PROVE FALSE
        OBVIOUS
    <2> DEFINE T == {k \in Nat : k <= Len(t) => Common(k)}
    <2>1. 0 \in T
        <3>1. SubSeq(t, 1, 0) = <<>>
            BY SubSeqEmpty
        <3>2. Common(0)
            BY <3>1, PrefixOfEmpty
        <3> QED
            BY <3>2
    <2>2. ASSUME NEW k \in Nat, k \in T PROVE k + 1 \in T
        <3> SUFFICES ASSUME k + 1 <= Len(t) PROVE Common(k + 1)
            OBVIOUS
        <3>1. k \in 0 .. Len(t) /\ k # Len(t)
            BY <1>1
        <3>2. Common(k) /\ ~ Longest(k)
            BY <1>1, <2>2, <3>1
        <3> QED
            BY <3>1, <3>2
    <2>3. Len(t) \in T
        <3> HIDE DEF T
        <3> QED
            BY <1>1, <2>1, <2>2, ByCounting
    <2>4. Len(t) \in 0 .. Len(t)
        BY <1>1
    <2>5. Common(Len(t))
        <3> HIDE DEF Common
        <3> QED
            BY <1>1, <2>3, <2>4
    <2> QED
        BY <2>4, <2>5
<1>3. len \in 0 .. Len(t)
    <2> HIDE DEF Longest
    <2> QED
        BY <1>2
<1>4. Lcd(texts) = SubSeq(t, 1, len)
    BY DEF Lcd, t
<1> HIDE DEF len
<1>5. SubSeq(t, 1, len) \in Seq(Letters)
    <2>1. \A i \in 1 .. len : t[i] \in Letters
        BY <1>1, <1>3
    <2>2. len \in Int
        BY <1>3
    <2> QED
        BY <2>1, <2>2, SubSeqProperties
<1> QED
    BY <1>4, <1>5

LEMMA WithLastType ==
    ASSUME line \in Seq(Words), line # <<>>, NEW w \in Words
    PROVE  WithLast(w) \in Seq(Words) /\ WithLast(w) # <<>>
<1>1. line \in Seq(Words) /\ Front(line) \in Seq(Words)
    BY LastType
<1>2. ASSUME NEW l \in Seq(Words) PROVE Append(l, w) \in Seq(Words) /\ Append(l, w) # <<>>
    <2>1. Append(l, w) \in Seq(Words) /\ Len(Append(l, w)) = Len(l) + 1 /\ Len(l) \in Nat
        BY AppendProperties, LenProperties
    <2> QED
        BY <2>1, EmptySeq
<1> QED
    BY <1>1, <1>2 DEF WithLast

LEMMA LineInit == Init => LineInv
BY EmptySeq DEF Init, LineInv

LEMMA LineNext == LineInv /\ [Next]_vars => LineInv'
<1> SUFFICES ASSUME LineInv, [Next]_vars PROVE LineInv'
    OBVIOUS
<1>1. CASE Type
    <2>1. PICK w \in Typed : line' = Append(line, w)
        BY <1>1 DEF Type
    <2>2. w \in Words
        BY TypedType
    <2>3. line' \in Seq(Words)
        BY <2>1, <2>2 DEF LineInv
    <2> QED
        BY <1>1, <2>3 DEF Type, LineInv
<1>2. CASE TypeSpace
    BY <1>2 DEF TypeSpace, LineInv
<1>3. CASE VtyCompleteCommand
    <2> DEFINE texts == Completions(node, line, space)
    <2>1. line # <<>> /\ node' = node /\ line \in Seq(Words)
        BY <1>3 DEF VtyCompleteCommand, LineInv
    <2>2. CompletionsOK(texts)
        BY <2>1, CompletionsType
    <2>3. CASE Cardinality(texts) = 1 /\ space' = TRUE /\ \E t \in texts : line' = WithLast(t)
        <3>1. PICK t \in texts : line' = WithLast(t)
            BY <2>3
        <3>2. t # <<>>
            <4> SUFFICES ASSUME t = <<>> PROVE FALSE
                OBVIOUS
            <4>1. PICK u \in texts : u # <<>>
                BY <2>2, <3>1 DEF CompletionsOK
            <4>2. u = t
                <5>1. IsFiniteSet(texts) /\ ~ (Cardinality(texts) > 1)
                    BY <2>2, <2>3 DEF CompletionsOK
                <5> HIDE DEF texts
                <5> QED
                    BY <5>1, OneOfFew
            <4> QED
                BY <4>1, <4>2
        <3>3. t \in Words
            BY <2>2, <3>2 DEF CompletionsOK, Words
        <3>4. line' \in Seq(Words) /\ line' # <<>>
            BY <2>1, <3>1, <3>3, WithLastType
        <3> QED
            BY <2>1, <2>3, <3>4 DEF LineInv
    <2>4. CASE /\ Cardinality(texts) > 1 /\ space' = FALSE
               /\ Len(Lcd(texts)) > Len(Last(line)) /\ line' = WithLast(Lcd(texts))
        <3>1. texts # {}
            BY <2>4, FS_EmptySet
        <3>2. Lcd(texts) \in Seq(Letters)
            BY <2>2, <3>1, LcdType DEF CompletionsOK
        <3>3. Len(Last(line)) \in Nat
            <4>1. Last(line) \in Seq(Letters)
                BY <2>1, LastType DEF Words
            <4> QED
                BY <4>1, LenProperties
        <3>4. Lcd(texts) # <<>>
            BY <2>4, <3>3, EmptySeq
        <3>5. Lcd(texts) \in Words
            BY <3>2, <3>4 DEF Words
        <3>6. line' \in Seq(Words) /\ line' # <<>>
            BY <2>1, <2>4, <3>5, WithLastType
        <3> QED
            BY <2>1, <2>4, <3>6 DEF LineInv
    <2> QED
        BY <1>3, <2>3, <2>4 DEF VtyCompleteCommand
<1>4. CASE VtyExecute
    <2>1. line' = <<>> /\ space' = FALSE /\ node' \in Nodes
        BY <1>4 DEF VtyExecute, LineInv
    <2> QED
        BY <2>1, EmptySeq DEF LineInv
<1>5. CASE UNCHANGED vars
    BY <1>5 DEF vars, LineInv
<1> QED
    BY <1>1, <1>2, <1>3, <1>4, <1>5 DEF Next

\* Whatever is typed, completed and executed, the line is of words that are not empty: TAB
\* never writes an empty word, although a command has one (command.c:1722, vty.c:882).
THEOREM LineTypeCorrect == Spec => []LineInv
<1> QED
    BY LineInit, LineNext, PTL DEF Spec

\* What runs a command runs it here, or falls back.
LEMMA WhereItRuns ==
    ASSUME NEW l, Runs(l)
    PROVE  /\ FallsBack(node, l) =>
                /\ CmdExecuteCommand(node, l) = Executed(FALSE, "CONFIG", l)
                /\ Executed(FALSE, "CONFIG", l).status = "SUCCESS"
                /\ WordsOf(node, l) = l
           /\ ~ FallsBack(node, l) =>
                /\ CmdExecuteCommand(node, l) = ExecutedHere(node, l)
                /\ RunsHere(l)
BY DEF Runs, RunsHere, CmdExecuteCommand, FallsBack, WordsOf

LEMMA GuessesNothing == LineInv => NothingIsGuessed
<1> SUFFICES ASSUME LineInv, line # <<>>, Runs(line) PROVE NothingIsGuessed
    BY DEF NothingIsGuessed
<1> DEFINE n == IF FallsBack(node, line) THEN "CONFIG" ELSE InNode(node, line)
           l == WordsOf(node, line)
           c == CmdExecuteCommand(node, line).command
<1>1. n \in Nodes /\ l \in Seq(Words)
    BY HereType, NodesAssumption DEF LineInv
<1>2. Executed(FALSE, n, l).status = "SUCCESS" /\ c = Executed(FALSE, n, l).command
    <2>1. CASE FallsBack(node, line)
        <3>1. n = "CONFIG" /\ l = line
            BY <2>1, WhereItRuns
        <3> HIDE DEF n, l
        <3> QED
            BY <2>1, <3>1, WhereItRuns
    <2>2. CASE ~ FallsBack(node, line)
        <3>1. n = InNode(node, line)
            BY <2>2
        <3>2. ExecutedHere(node, line) = Executed(FALSE, n, l)
            BY <3>1 DEF ExecutedHere
        <3> HIDE DEF n, l
        <3> QED
            BY <2>2, <3>2, WhereItRuns DEF RunsHere
    <2> QED
        BY <2>1, <2>2
<1>3. NothingIsGuessed <=> Names(n, l, c)
    BY DEF NothingIsGuessed, Names
<1> HIDE DEF n, l, c
<1>4. Len(l) \in Nat /\ \A i \in 1 .. Len(l) : l[i] # <<>>
    <2>1. Len(l) \in Nat
        BY <1>1, LenProperties
    <2>2. \A i \in 1 .. Len(l) : l[i] \in Words
        BY <1>1
    <2> QED
        BY <2>1, <2>2 DEF Words
<1> QED
    BY <1>1, <1>2, <1>3, <1>4, NothingGuessed, Zenon

\* An abbreviated line that runs a command can mean no other command of the node that
\* runs it, and with its words written out a configuration file runs the same
\* (command.c:1289, 2119, 2137).
THEOREM NothingIsEverGuessed == Spec => []NothingIsGuessed
<1> QED
    BY LineTypeCorrect, GuessesNothing, PTL
-----------------------------------------------------------------------------
(* What is described.                                                      *)

\* Two commands that are both left after a word may have gone on with it both.
LEMMA AlikeRound ==
    ASSUME NEW n \in Nodes, NEW m \in Matches(n), NEW w, NEW i, NEW m2,
           m.status = "more", i = m.words + 1, m2 = Typing(m, w), m2.status = "more",
           NEW c \in m2.left, NEW o \in m2.left
    PROVE  Alike(c, o, i)
<1> DEFINE left == Filter(FALSE, m.left, w, i)
           type == BestTyped(m.left, w, i)
           next == {x \in left : \E d \in At(x, i) : Counts(type, w, d)}
<1>1. i \in Nat \ {0} /\ m.left \in SUBSET CmdVec[n]
    BY DEF Matches
<1>2. CASE type \in {"exact", "partly"}
    <2>1. \E d : m2 = Narrowed(m, i, d)
        <3>1. CASE type = "exact"
            <4>1. Stands(Word(w), m.left, i)
                BY <1>1, <3>1, ExactStands
            <4> QED
                BY <4>1, ExactRound
        <3>2. CASE type = "partly"
            <4>1. m2 = Typing(m, w) \/ m2 = Completing(m, w)
                OBVIOUS
            <4> QED
                BY <3>2, <4>1, PartlyRound
        <3> QED
            BY <1>2, <3>1, <3>2
    <2>2. PICK d : m2 = Narrowed(m, i, d)
        BY <2>1
    <2>3. m2.left = Having(m.left, i, d)
        BY <2>2 DEF Narrowed, Matches
    <2> QED
        BY <2>3 DEF Having, Alike
<1>3. CASE type \notin {"exact", "partly"}
    <2>1. m2.left = next
        <3> HIDE DEF next
        <3>1. next = {x \in left : \E d \in At(x, i) : Counts(type, w, d)}
            BY DEF next
        <3> QED
            BY <3>1 DEF Typing, Round, BestTyped, Matches
    <2>2. \A d : Counts(type, w, d) => d.kind # "word"
        BY <1>3 DEF Counts
    <2>3. \A x \in next : NotOnlyWords(x, i)
        <3> HIDE DEF left, type
        <3> QED
            BY <2>2 DEF NotOnlyWords
    <2> QED
        BY <2>1, <2>3 DEF Alike
<1> QED
    BY <1>2, <1>3

\* So it is of the whole line.
AllAlike(left, k) == \A c, o \in left : \A i \in 1 .. k : Alike(c, o, i)

LEMMA AlikeRounds ==
    ASSUME NEW f, NEW n \in Nodes, NEW l, Len(l) \in Nat, Rounds(f, FALSE, TRUE, n, l)
    PROVE  \A k \in 0 .. Len(l) : f[k].status = "more" => AllAlike(f[k].left, k)
<1>0. Orderly(f, n, l)
    BY RoundsAreOrderly
<1> DEFINE T == {k \in Nat : k <= Len(l) => (f[k].status = "more" => AllAlike(f[k].left, k))}
<1>1. 0 \in T
    BY DEF AllAlike
<1>2. ASSUME NEW k \in Nat, k \in T PROVE k + 1 \in T
    <2> SUFFICES ASSUME k + 1 <= Len(l), f[k + 1].status = "more",
                        NEW c \in f[k + 1].left, NEW o \in f[k + 1].left, NEW i \in 1 .. k + 1
                 PROVE  Alike(c, o, i)
        BY DEF AllAlike
    <2>1. k \in 0 .. Len(l) /\ k + 1 \in 0 .. Len(l) /\ k + 1 \in 1 .. Len(l) /\ (k + 1) - 1 = k
        OBVIOUS
    <2>2. f[k + 1] = Typing(f[k], l[k + 1])
        BY <2>1 DEF Rounds, Typing
    <2>3. f[k] \in Matches(n) /\ (f[k].status = "more" => f[k].words = k)
        BY <1>0, <2>1 DEF Orderly
    <2>4. Continues(n, f[k], f[k + 1])
        BY <2>2, <2>3, RoundKeeps, Zenon DEF Typing
    <2>5. f[k].status = "more" /\ f[k].words = k /\ f[k + 1].left \subseteq f[k].left
        BY <2>3, <2>4 DEF Continues
    <2>6. CASE i = k + 1
        <3>1. i = f[k].words + 1
            BY <2>5, <2>6
        <3> QED
            BY <2>2, <2>3, <2>5, <3>1, AlikeRound
    <2>7. CASE i # k + 1
        <3>1. i \in 1 .. k /\ k <= Len(l)
            BY <2>7
        <3>2. AllAlike(f[k].left, k)
            BY <1>2, <2>5, <3>1
        <3> QED
            BY <2>5, <3>1, <3>2 DEF AllAlike
    <2> QED
        BY <2>6, <2>7
<1>3. \A k \in Nat : k \in T
    <2> HIDE DEF T
    <2> QED
        BY <1>1, <1>2, ByCounting
<1> QED
    BY <1>3

\* Commands that are alike up to a place with a variable number of words are one.
LEMMA VarargIsOne ==
    ASSUME NEW n \in Nodes, NEW left \in SUBSET CmdVec[n], NEW k \in Nat \ {0},
           AllAlike(left, k), NEW c \in left, NEW o \in left,
           \E d \in At(c, k) : d.kind = "vararg"
    PROVE  c = o
<1> SUFFICES ASSUME c # o PROVE FALSE
    OBVIOUS
<1>1. c \in CmdVec[n] /\ o \in CmdVec[n]
    OBVIOUS
<1>2. PICK i \in (1 .. CmdSize(c)) \cup (1 .. CmdSize(o)) :
          /\ ~ Alike(c, o, i)
          /\ \A j \in 1 .. i - 1 : \A d \in At(c, j) \cup At(o, j) : d.kind # "vararg"
    BY <1>1, DifferAssumption
<1>3. i \notin 1 .. k
    BY <1>2 DEF AllAlike
<1>4. i \in Int /\ i >= 1
    OBVIOUS
<1>5. k \in 1 .. i - 1
    BY <1>3, <1>4
<1> QED
    BY <1>2, <1>5

\* The matching ends with a variable number of words: one command is left.
LEMMA VarargRound ==
    ASSUME NEW n \in Nodes, NEW m \in Matches(n), NEW w, NEW m2,
           m.status = "more", AllAlike(m.left, m.words), m2 = Typing(m, w), m2.status = "vararg"
    PROVE  \E x : m2.left = {x}
<1> DEFINE i == m.words + 1
           left == Filter(FALSE, m.left, w, i)
           type == BestTyped(m.left, w, i)
<1>1. i \in Nat \ {0} /\ m.words \in Nat /\ m.left \in SUBSET CmdVec[n]
    BY DEF Matches
<1>2. type = "vararg" /\ m2.left = left
    <2>1. CASE type = "vararg"
        BY <2>1 DEF Typing, Round, BestTyped, Matches
    <2>2. CASE type # "vararg"
        <3> DEFINE next == {x \in left : \E d \in At(x, i) : Counts(type, w, d)}
        <3>1. m2 = [m EXCEPT !.status = "AMBIGUOUS"] \/ m2 = [m EXCEPT !.words = i, !.left = next]
            BY <2>2 DEF Typing, Round, BestTyped
        <3> HIDE DEF next
        <3> QED
            BY <3>1 DEF Matches
    <2> QED
        BY <2>1, <2>2
<1>3. BestIs(type, m.left, w, i)
    BY BestCompletes
<1>4. PICK x \in m.left : \E d \in At(x, i) : Completes(w, d) = "vararg"
    BY <1>2, <1>3 DEF BestIs
<1> HIDE DEF type
<1>5. \E d \in At(x, i) : d.kind = "vararg"
    BY <1>4 DEF Completes
<1>6. \A c \in left : c \in m.left /\ \E d \in At(c, i) : Completes(w, d) # "no"
    BY MatchType DEF Filter
<1>7. x \in left
    <2>1. \E d \in At(x, i) : Match(FALSE, w, d) # "no"
        BY <1>4, MatchType
    <2> QED
        BY <2>1 DEF Filter
<1> HIDE DEF left
<1>8. \A c \in left : NotOnlyWords(c, i)
    <2> SUFFICES ASSUME NEW c \in left PROVE NotOnlyWords(c, i)
        OBVIOUS
    <2>1. PICK d \in At(c, i) : Completes(w, d) # "no"
        BY <1>6
    <2>2. Completes(w, d) \notin {"exact", "partly"}
        BY <1>2, <1>3, <1>6, <2>1 DEF BestIs
    <2>3. d.kind # "word"
        BY <2>1, <2>2, WordMatches
    <2> QED
        BY <2>3 DEF NotOnlyWords
<1>9. AllAlike(left, i)
    <2> SUFFICES ASSUME NEW c \in left, NEW o \in left, NEW j \in 1 .. i PROVE Alike(c, o, j)
        BY DEF AllAlike
    <2>1. CASE j = i
        BY <1>8, <2>1 DEF Alike
    <2>2. CASE j # i
        <3>1. j \in 1 .. m.words
            BY <1>1, <2>2
        <3> QED
            BY <1>6, <3>1 DEF AllAlike
    <2> QED
        BY <2>1, <2>2
<1>10. left \in SUBSET CmdVec[n]
    BY <1>1, <1>6
<1> HIDE DEF i
<1>11. \A c \in left : x = c
    BY <1>1, <1>5, <1>7, <1>9, <1>10, VarargIsOne
<1>12. left = {x}
    BY <1>7, <1>11
<1> QED
    BY <1>2, <1>12

\* What a line may have come to.
Settled(m, n, k) ==
    /\ m \in Matches(n)
    /\ m.status = "more" => m.words = k /\ AllAlike(m.left, k)
    /\ m.status = "vararg" => \E x : m.left = {x}

LEMMA LineSettles ==
    ASSUME NEW n \in Nodes, NEW l, Len(l) \in Nat
    PROVE  Settled(Matched(FALSE, TRUE, n, l), n, Len(l))
<1>1. PICK f : Rounds(f, FALSE, TRUE, n, l) /\ Matched(FALSE, TRUE, n, l) = f[Len(l)]
    BY MatchedIsLast, Zenon
<1>2. Orderly(f, n, l)
    BY <1>1, RoundsAreOrderly
<1>3. \A k \in 0 .. Len(l) : f[k].status = "more" => AllAlike(f[k].left, k)
    BY <1>1, AlikeRounds
<1> DEFINE T == {k \in Nat : k <= Len(l) => Settled(f[k], n, k)}
<1>4. 0 \in T
    <2>1. 0 \in 0 .. Len(l) /\ 0 <= Len(l)
        OBVIOUS
    <2>2. f[0].status = "more"
        BY <1>1 DEF Rounds, Begin
    <2>3. f[0] \in Matches(n) /\ f[0].words = 0
        BY <1>2, <2>1, <2>2 DEF Orderly
    <2> QED
        BY <1>3, <2>1, <2>2, <2>3 DEF Settled
<1>5. ASSUME NEW k \in Nat, k \in T PROVE k + 1 \in T
    <2> SUFFICES ASSUME k + 1 <= Len(l) PROVE Settled(f[k + 1], n, k + 1)
        OBVIOUS
    <2>1. k \in 0 .. Len(l) /\ k + 1 \in 0 .. Len(l) /\ k + 1 \in 1 .. Len(l) /\ (k + 1) - 1 = k
        OBVIOUS
    <2>2. f[k + 1] = Typing(f[k], l[k + 1])
        BY <1>1, <2>1 DEF Rounds, Typing
    <2>3. /\ f[k + 1] \in Matches(n)
          /\ f[k + 1].status = "more" => f[k + 1].words = k + 1 /\ AllAlike(f[k + 1].left, k + 1)
        BY <1>2, <1>3, <2>1 DEF Orderly
    <2>4. Settled(f[k], n, k)
        BY <1>5, <2>1
    <2>5. ASSUME f[k + 1].status = "vararg" PROVE \E x : f[k + 1].left = {x}
        <3>1. CASE f[k].status # "more"
            <4>1. f[k + 1] = f[k]
                BY <2>2, <3>1 DEF Typing, Round
            <4> QED
                BY <2>4, <2>5, <4>1 DEF Settled
        <3>2. CASE f[k].status = "more"
            <4> DEFINE m == f[k]
                       m2 == f[k + 1]
            <4>1. m \in Matches(n)
                BY <2>4 DEF Settled
            <4>2. m.status = "more" /\ AllAlike(m.left, m.words)
                BY <2>4, <3>2 DEF Settled
            <4>3. m2 = Typing(m, l[k + 1]) /\ m2.status = "vararg"
                BY <2>2, <2>5
            <4> HIDE DEF m, m2
            <4>4. \E x : m2.left = {x}
                BY <4>1, <4>2, <4>3, VarargRound
            <4> QED
                BY <4>4 DEF m2
        <3> QED
            BY <3>1, <3>2
    <2> QED
        BY <2>3, <2>5 DEF Settled
<1>6. Len(l) \in T
    <2> HIDE DEF T
    <2> QED
        BY <1>4, <1>5, ByCounting
<1>7. Len(l) <= Len(l)
    OBVIOUS
<1> QED
    BY <1>1, <1>6, <1>7

\* What a command must have of words, and what follows them.
SizeOK(c, k) ==
    /\ CmdSize(c) \in Nat
    /\ CmdSize(c) <= Len(c)
    /\ k >= CmdSize(c) /\ k < Len(c) => Optional(c, k + 1)

LEMMA SizeIs ==
    ASSUME NEW n \in Nodes, NEW c \in CmdVec[n], NEW k \in Nat
    PROVE  SizeOK(c, k)
<1> DEFINE P == {i \in 1 .. Len(c) : \A j \in 1 .. i : ~ Optional(c, j)}
<1>1. Len(c) \in Nat
    BY CommandsAssumption
<1>2. IsFiniteSet(1 .. Len(c)) /\ Cardinality(1 .. Len(c)) = Len(c)
    <2>1. 1 \in Int /\ Len(c) \in Int /\ Len(c) - 1 + 1 = Len(c)
        BY <1>1
    <2>2. CASE 1 <= Len(c)
        BY <2>1, <2>2, FS_Interval
    <2>3. CASE ~ (1 <= Len(c))
        <3>1. Len(c) = 0 /\ 1 .. Len(c) = {}
            BY <1>1, <2>3
        <3> QED
            BY <3>1, FS_EmptySet
    <2> QED
        BY <2>2, <2>3
<1>3. P \in SUBSET (1 .. Len(c)) /\ CmdSize(c) = Cardinality(P)
    BY DEF CmdSize
<1>4. CmdSize(c) \in Nat /\ CmdSize(c) <= Len(c) /\ IsFiniteSet(P)
    <2> HIDE DEF P
    <2> QED
        BY <1>2, <1>3, FS_Subset, FS_CardinalityType
<1>5. ASSUME k >= CmdSize(c), k < Len(c), ~ Optional(c, k + 1) PROVE FALSE
    <2>1. \A j \in 1 .. k + 1 : ~ Optional(c, j)
        <3> SUFFICES ASSUME NEW j \in 1 .. k + 1, Optional(c, j) PROVE FALSE
            OBVIOUS
        <3>1. j \in 1 .. Len(c) /\ k + 1 \in j .. Len(c)
            BY <1>1, <1>5
        <3>2. Optional(c, k + 1)
            BY <3>1, OptionsAssumption
        <3> QED
            BY <1>5, <3>2
    <2>2. 1 .. k + 1 \in SUBSET P
        <3> SUFFICES ASSUME NEW i \in 1 .. k + 1 PROVE i \in P
            OBVIOUS
        <3>1. i \in 1 .. Len(c)
            BY <1>1, <1>5
        <3>2. \A j \in 1 .. i : j \in 1 .. k + 1
            OBVIOUS
        <3> QED
            BY <2>1, <3>1, <3>2
    <2>3. Cardinality(1 .. k + 1) = k + 1
        <3>1. 1 \in Int /\ k + 1 \in Int /\ 1 <= k + 1
            OBVIOUS
        <3> QED
            BY <3>1, FS_Interval
    <2>4. Cardinality(1 .. k + 1) <= Cardinality(P)
        <3> HIDE DEF P
        <3> QED
            BY <1>4, <2>2, FS_Subset
    <2> QED
        BY <1>3, <1>4, <1>5, <2>3, <2>4
<1> QED
    BY <1>4, <1>5 DEF SizeOK

\* Of the commands that are alike in all words of the line only one needs no more.
LEMMA OneIsComplete ==
    ASSUME NEW n \in Nodes, NEW left \in SUBSET CmdVec[n], NEW k \in Nat,
           AllAlike(left, k), NEW c \in left, NEW o \in left,
           k >= CmdSize(c), k >= CmdSize(o)
    PROVE  c = o
<1> SUFFICES ASSUME c # o PROVE FALSE
    OBVIOUS
<1>1. c \in CmdVec[n] /\ o \in CmdVec[n]
    OBVIOUS
<1>2. CmdSize(c) \in Nat /\ CmdSize(o) \in Nat
    BY <1>1, SizeIs DEF SizeOK
<1>3. PICK i \in (1 .. CmdSize(c)) \cup (1 .. CmdSize(o)) : ~ Alike(c, o, i)
    BY <1>1, DifferAssumption
<1>4. i \in 1 .. k
    BY <1>2
<1> QED
    BY <1>3, <1>4 DEF AllAlike

\* What is left has a place for every word of the line.
LEMMA LeftIsLong ==
    ASSUME NEW n \in Nodes, NEW left \in SUBSET CmdVec[n], NEW k \in Nat,
           AllAlike(left, k), NEW c \in left
    PROVE  k <= Len(c)
<1> SUFFICES ASSUME ~ (k <= Len(c)) PROVE FALSE
    OBVIOUS
<1>1. c \in CmdVec[n] /\ Len(c) \in Nat
    BY CommandsAssumption
<1>2. k \in 1 .. k
    BY <1>1
<1>3. Alike(c, c, k)
    BY <1>2 DEF AllAlike
<1>4. At(c, k) = {}
    BY DEF At
<1> QED
    BY <1>3, <1>4 DEF Alike, NotOnlyWords

\* Can the line be the command c as it stands?
Complete(m, k, c) ==
    /\ m.status # "AMBIGUOUS"
    /\ c \in m.left
    /\ m.status = "vararg" \/ k >= CmdSize(c)

LEMMA CompleteRuns ==
    ASSUME NEW n \in Nodes, NEW k \in Nat, NEW m, Settled(m, n, k), NEW c, Complete(m, k, c)
    PROVE  Verdict(m, k).status = "SUCCESS"
<1> DEFINE matched == {x \in m.left : m.status = "vararg" \/ k >= CmdSize(x)}
<1>1. c \in matched
    BY DEF Complete
<1>2. \A x \in matched : x = c
    <2> SUFFICES ASSUME NEW x \in m.left, m.status = "vararg" \/ k >= CmdSize(x) PROVE x = c
        OBVIOUS
    <2>1. CASE m.status = "vararg"
        BY <2>1 DEF Complete, Settled
    <2>2. CASE m.status # "vararg"
        <3>1. m.status = "more"
            BY <2>2 DEF Complete, Settled, Matches, Statuses
        <3>2. AllAlike(m.left, k) /\ m.left \in SUBSET CmdVec[n]
            BY <3>1 DEF Settled, Matches
        <3>3. c \in m.left /\ k >= CmdSize(c) /\ k >= CmdSize(x)
            BY <2>2 DEF Complete
        <3> QED
            BY <3>2, <3>3, OneIsComplete
    <2> QED
        BY <2>1, <2>2
<1>3. Cardinality(matched) = 1
    <2>1. matched = {c}
        <3> HIDE DEF matched
        <3> QED
            BY <1>1, <1>2
    <2> QED
        BY <2>1, FS_Singleton
<1>4. m.status # "AMBIGUOUS" /\ matched # {} /\ ~ (Cardinality(matched) > 1)
    <2> HIDE DEF matched
    <2> QED
        BY <1>1, <1>3 DEF Complete
<1> QED
    BY <1>4 DEF Verdict

\* A word that is like none of the commands stands for something else than a word.
LEMMA OtherIsNoWord ==
    ASSUME NEW n \in Nodes, NEW left \in SUBSET CmdVec[n], NEW i \in Nat \ {0}, NEW w \in Others
    PROVE  BestTyped(left, w, i) \notin {"exact", "partly"}
<1> DEFINE type == BestTyped(left, w, i)
<1> SUFFICES ASSUME type \in {"exact", "partly"} PROVE FALSE
    OBVIOUS
<1>1. BestIs(type, left, w, i)
    BY BestCompletes
<1> HIDE DEF type
<1>2. PICK x \in left : \E e \in At(x, i) : Completes(w, e) = type
    BY <1>1 DEF BestIs
<1>3. PICK e \in At(x, i) : Completes(w, e) = type
    BY <1>2
<1>4. x \in CmdVec[n]
    OBVIOUS
<1>5. e.kind = "word"
    BY <1>3, <1>4, OnlyWords
<1>6. i \in 1 .. Len(x) /\ e \in x[i]
    BY <1>4, InPlace
<1>7. ~ IsPrefix(w, e.text)
    BY <1>4, <1>5, <1>6, OthersAssumption
<1>8. IsPrefix(w, w)
    BY TypedAssumption, PrefixOfItself
<1> QED
    BY <1>3, <1>5, <1>7, <1>8, WordMatches

\* Numbers do not make a line ambiguous.
LEMMA RangeIsClear ==
    ASSUME NEW n \in Nodes, NEW left \in SUBSET CmdVec[n], NEW i \in Nat \ {0}, NEW w
    PROVE  ~ Ambiguous("range", left, w, i)
<1> DEFINE counted == {d \in UNION {At(c, i) : c \in left} : Counts("range", w, d)}
<1>1. ASSUME NEW d \in counted, NEW e \in counted PROVE d = e
    <2>1. PICK c \in left : d \in At(c, i)
        OBVIOUS
    <2>2. PICK o \in left : e \in At(o, i)
        OBVIOUS
    <2>3. c \in CmdVec[n] /\ o \in CmdVec[n]
        OBVIOUS
    <2>4. i \in 1 .. Len(c) /\ d \in c[i] /\ d \in Alternatives /\ e \in Alternatives
        BY <2>1, <2>2, <2>3, InPlace
    <2>5. /\ d.kind = "range" /\ RangeMatch(d, w)
          /\ e.kind = "range" /\ RangeMatch(e, w)
        BY DEF Counts
    <2> DEFINE x == Number(w)
    <2>6. x \in d.min .. d.max /\ x \in e.min .. e.max
        BY <2>5 DEF RangeMatch
    <2>7. d.min \in Int /\ d.max \in Int /\ e.min \in Int /\ e.max \in Int
        BY <2>4 DEF Alternatives
    <2> HIDE DEF x
    <2>8. ~ (d.max < e.min \/ e.max < d.min)
        BY <2>6, <2>7
    <2> QED
        BY <2>2, <2>3, <2>4, <2>5, <2>8, RangesAssumption
<1>2. ~ (Cardinality(counted) > 1)
    <2> HIDE DEF counted
    <2>1. CASE counted = {}
        BY <2>1, FS_EmptySet
    <2>2. CASE counted # {}
        <3>1. PICK d : d \in counted
            BY <2>2
        <3>2. counted = {d}
            BY <1>1, <3>1
        <3>3. Cardinality({d}) = 1
            BY FS_Singleton
        <3> QED
            BY <3>2, <3>3
    <2> QED
        BY <2>1, <2>2
<1> QED
    BY <1>2 DEF Ambiguous

GoesOn(m) == m.status # "AMBIGUOUS" /\ \E c : c \in m.left

\* Whatever an alternative stands for is accepted where it is offered.
LEMMA OfferedIsAccepted ==
    ASSUME NEW n \in Nodes, NEW m \in Matches(n), NEW i, NEW c \in m.left, NEW d \in At(c, i),
           NEW w \in Examples(d), m.status = "more", i = m.words + 1
    PROVE  GoesOn(Typing(m, w))
<1> DEFINE left == Filter(FALSE, m.left, w, i)
           type == BestTyped(m.left, w, i)
           next == {x \in left : \E e \in At(x, i) : Counts(type, w, e)}
           m2 == Typing(m, w)
<1>1. i \in Nat \ {0} /\ m.left \in SUBSET CmdVec[n] /\ c \in CmdVec[n]
    BY DEF Matches
<1>2. CASE d.kind = "word"
    <2>1. d = Word(w)
        BY <1>1, <1>2, InPlace DEF Examples
    <2>2. Stands(Word(w), m.left, i)
        BY <2>1 DEF Stands
    <2>3. m2 = Narrowed(m, i, Word(w))
        BY <2>2, ExactRound
    <2>4. m2.left = Having(m.left, i, Word(w)) /\ m2.status = "more"
        BY <2>3 DEF Narrowed, Matches
    <2>5. c \in m2.left
        BY <2>1, <2>4 DEF Having
    <2> QED
        BY <2>4, <2>5 DEF GoesOn
<1>3. CASE d.kind # "word"
    <2>1. w \in Others /\ Completes(w, d) # "no"
        BY <1>3 DEF Examples
    <2>2. type \notin {"exact", "partly"}
        BY <1>1, <2>1, OtherIsNoWord
    <2>3. BestIs(type, m.left, w, i)
        BY BestCompletes
    <2>4. type \in {"extend", "range", "vararg"}
        <3> HIDE DEF type
        <3> QED
            BY <2>1, <2>2, <2>3 DEF BestIs, Ranks
    <2>5. left \in SUBSET CmdVec[n]
        BY <1>1 DEF Filter
    <2>6. \A x \in m.left : \A e \in At(x, i) : Completes(w, e) # "no" => x \in left
        BY MatchType DEF Filter
    <2>7. c \in left
        BY <2>1, <2>6
    <2> HIDE DEF left
    <2>8. CASE type = "vararg"
        <3>1. m2 = [m EXCEPT !.left = left, !.status = "vararg"]
            BY <2>8 DEF left, Typing, Round, BestTyped
        <3>2. m2.left = left /\ m2.status = "vararg"
            BY <3>1 DEF Matches
        <3> QED
            BY <2>7, <3>2 DEF GoesOn
    <2>9. CASE type \in {"extend", "range"}
        <3>1. ~ Ambiguous(type, left, w, i)
            <4>1. CASE type = "extend"
                BY <4>1 DEF Ambiguous
            <4>2. CASE type = "range"
                BY <1>1, <2>5, <4>2, RangeIsClear
            <4> QED
                BY <2>9, <4>1, <4>2
        <3>2. m2 = [m EXCEPT !.words = i, !.left = next]
            <4>1. next = {x \in left : \E e \in At(x, i) : Counts(type, w, e)}
                BY DEF next
            <4> HIDE DEF next
            <4> QED
                BY <2>9, <3>1, <4>1 DEF left, Typing, Round, BestTyped
        <3>3. PICK x \in m.left : \E e \in At(x, i) : Completes(w, e) = type
            <4> HIDE DEF type
            <4> QED
                BY <2>3, <2>4 DEF BestIs
        <3>4. PICK e \in At(x, i) : Completes(w, e) = type
            BY <3>3
        <3> HIDE DEF type
        <3>5. Counts(type, w, e)
            <4>1. CASE type = "extend"
                BY <3>4, <4>1 DEF Counts, Completes
            <4>2. CASE type = "range"
                BY <3>4, <4>2 DEF Counts, Completes
            <4> QED
                BY <2>9, <4>1, <4>2
        <3>6. x \in left
            BY <2>6, <2>9, <3>4
        <3>7. x \in next
            BY <3>5, <3>6
        <3> HIDE DEF next
        <3>8. m2.left = next /\ m2.status = "more"
            BY <3>2 DEF Matches
        <3> QED
            BY <3>7, <3>8 DEF GoesOn
    <2> QED
        BY <2>4, <2>8, <2>9
<1> QED
    BY <1>2, <1>3

\* A word more at the end of the line.
LEMMA AppendHere ==
    ASSUME NEW n, NEW S, NEW l \in Seq(S), NEW w \in S, l # <<>>
    PROVE  /\ InNode(n, Append(l, w)) = InNode(n, l)
           /\ WordsOf(n, Append(l, w)) = Append(WordsOf(n, l), w)
           /\ WordsOf(n, l) \in Seq(S)
<1> DEFINE o == Append(l, w)
<1>1. Len(l) \in Nat /\ Len(l) # 0
    BY EmptySeq
<1>2. /\ o \in Seq(S) /\ Len(o) = Len(l) + 1 /\ o[Len(l) + 1] = w
      /\ \A j \in 1 .. Len(l) : o[j] = l[j]
    BY AppendProperties
<1>3. o # <<>> /\ o[1] = l[1]
    <2>1. 1 \in 1 .. Len(l)
        BY <1>1
    <2>2. o[1] = l[1]
        BY <1>2, <2>1
    <2>3. Len(o) # 0
        BY <1>1, <1>2
    <2> QED
        BY <2>2, <2>3, EmptySeq
<1>4. IsDo(n, o) <=> IsDo(n, l)
    BY <1>3 DEF IsDo
<1>5. /\ Tail(l) \in Seq(S) /\ Len(Tail(l)) = Len(l) - 1
      /\ \A j \in 1 .. Len(l) - 1 : Tail(l)[j] = l[j + 1]
    BY HeadTailProperties
<1>6. Tail(o) = Append(Tail(l), w)
    <2>1. /\ Tail(o) \in Seq(S) /\ Len(Tail(o)) = Len(o) - 1
          /\ \A j \in 1 .. Len(o) - 1 : Tail(o)[j] = o[j + 1]
        BY <1>2, <1>3, HeadTailProperties
    <2> DEFINE a == Tail(l)
               b == Append(a, w)
    <2>2. /\ b \in Seq(S) /\ Len(b) = Len(a) + 1 /\ b[Len(a) + 1] = w
          /\ \A j \in 1 .. Len(a) : b[j] = a[j]
        <3>1. a \in Seq(S)
            BY <1>5
        <3> HIDE DEF a
        <3> QED
            BY <3>1, AppendProperties
    <2> HIDE DEF o, b
    <2>6. Len(a) = Len(l) - 1
        BY <1>5
    <2> HIDE DEF a
    <2>3. Len(Tail(o)) = Len(b) /\ Len(b) = Len(l)
        BY <1>1, <1>2, <2>1, <2>2, <2>6
    <2>7. \A j \in 1 .. Len(a) : a[j] = l[j + 1]
        BY <1>5, <2>6 DEF a
    <2>4. ASSUME NEW j \in 1 .. Len(b) PROVE Tail(o)[j] = b[j]
        <3>1. Tail(o)[j] = o[j + 1]
            BY <2>1, <2>3
        <3>2. CASE j = Len(a) + 1
            BY <1>1, <1>2, <2>2, <2>6, <3>1, <3>2
        <3>3. CASE j # Len(a) + 1
            <4>1. j \in 1 .. Len(a) /\ j + 1 \in 1 .. Len(l)
                BY <1>1, <2>3, <2>6, <3>3
            <4> QED
                BY <1>2, <2>2, <2>7, <3>1, <4>1
        <3> QED
            BY <3>2, <3>3
    <2>5. Tail(o) = b
        BY <2>1, <2>2, <2>3, <2>4, SeqEqual
    <2> QED
        BY <2>5 DEF a, b
<1> HIDE DEF o
<1>7. InNode(n, o) = InNode(n, l) /\ WordsOf(n, o) = (IF IsDo(n, l) THEN Tail(o) ELSE o)
    BY <1>4 DEF InNode, WordsOf
<1>8. WordsOf(n, l) \in Seq(S)
    BY <1>5 DEF WordsOf
<1> QED
    BY <1>6, <1>7, <1>8 DEF WordsOf, o

\* What '?' shows at the end of a line of k words, of all the line may have come to.
LEMMA ShownAfter ==
    ASSUME NEW m, NEW k
    PROVE  /\ m.status = "AMBIGUOUS" => DescribedAfter(m, k, <<>>) = {}
           /\ m.status = "vararg" => \A d : d \in DescribedAfter(m, k, <<>>) <=>
                 d = Cr \/ \E c \in m.left : d \in Last(c)
           /\ m.status = "more" => \A d : d \in DescribedAfter(m, k, <<>>) <=>
                 \/ d # Word(<<>>) /\ \E c \in m.left : d \in At(c, k + 1)
                 \/ d = Cr /\ \E c \in m.left : Len(c) = k
<1> DEFINE all == UNION {At(c, k + 1) : c \in m.left}
           offered == {d \in all : Shown(<<>>, d)}
           cr == IF \E c \in m.left : Len(c) = k THEN {Cr} ELSE {}
<1>1. \A d : d \in offered <=> d \in all
    <2> HIDE DEF all
    <2>1. \A d : Shown(<<>>, d)
        BY Zenon DEF Shown
    <2> QED
        BY <2>1, Zenon
<1>2. m.status = "more" => DescribedAfter(m, k, <<>>) = (offered \ {Word(<<>>)}) \cup cr
    BY Zenon DEF DescribedAfter
<1>3. \A d : d \in all <=> \E c \in m.left : d \in At(c, k + 1)
    OBVIOUS
<1>4. \A d : d \in cr <=> d = Cr /\ \E c \in m.left : Len(c) = k
    OBVIOUS
<1> DEFINE lasts == UNION {Last(c) : c \in m.left}
<1>5. m.status = "vararg" => DescribedAfter(m, k, <<>>) = {Cr} \cup lasts
    BY Zenon DEF DescribedAfter
<1>6. \A d : d \in lasts <=> \E c \in m.left : d \in Last(c)
    BY Zenon
<1> HIDE DEF offered, all, cr, lasts
<1>7. m.status = "vararg" => \A d : d \in DescribedAfter(m, k, <<>>) <=>
          d = Cr \/ \E c \in m.left : d \in Last(c)
    BY <1>5, <1>6
<1>8. m.status = "more" => \A d : d \in DescribedAfter(m, k, <<>>) <=>
          \/ d # Word(<<>>) /\ \E c \in m.left : d \in At(c, k + 1)
          \/ d = Cr /\ \E c \in m.left : Len(c) = k
    BY <1>1, <1>2, <1>3, <1>4
<1>9. m.status = "AMBIGUOUS" => DescribedAfter(m, k, <<>>) = {}
    BY DEF DescribedAfter
<1> QED
    BY <1>8, <1>7, <1>9, Zenon

\* A command that is left after a word has an alternative that the word may stand for.
LEMMA LeftCompletes ==
    ASSUME NEW n \in Nodes, NEW m \in Matches(n), NEW w, NEW i, NEW c \in Typing(m, w).left,
           m.status = "more", i = m.words + 1, Typing(m, w).status # "AMBIGUOUS"
    PROVE  c \in m.left /\ \E d \in At(c, i) : Completes(w, d) # "no"
<1> DEFINE m2 == Typing(m, w)
           left == Filter(FALSE, m.left, w, i)
           type == BestTyped(m.left, w, i)
           next == {x \in left : \E d \in At(x, i) : Counts(type, w, d)}
<1>1. \/ m2 = [m EXCEPT !.left = left, !.status = "vararg"]
      \/ m2 = [m EXCEPT !.status = "AMBIGUOUS"]
      \/ m2 = [m EXCEPT !.words = i, !.left = next]
    BY DEF Typing, Round, BestTyped
<1>2. c \in left
    <2>1. next \subseteq left
        OBVIOUS
    <2> HIDE DEF next, left
    <2> QED
        BY <1>1, <2>1 DEF Matches
<1>3. c \in m.left /\ \E d \in At(c, i) : Match(FALSE, w, d) # "no"
    BY <1>2 DEF Filter
<1> QED
    BY <1>3, MatchType

\* A line that has come to m after k words, and what is shown behind it.
ShownBehind(m, n, k, shown) ==
    Settled(m, n, k) /\ shown = DescribedAfter(m, k, <<>>)

\* What is shown, by cases.
ShownIs(m, k, shown) ==
    /\ m.status = "AMBIGUOUS" => shown = {}
    /\ m.status = "vararg" =>
          /\ Cr \in shown
          /\ \A d \in shown : d # Cr => \E c \in m.left : d \in Last(c)
    /\ m.status = "more" => \A d : d \in shown <=>
          \/ d # Word(<<>>) /\ \E c \in m.left : d \in At(c, k + 1)
          \/ d = Cr /\ \E c \in m.left : Len(c) = k

LEMMA WhatIsShown ==
    ASSUME NEW m, NEW n, NEW k, NEW shown, ShownBehind(m, n, k, shown)
    PROVE  ShownIs(m, k, shown)
<1>1. shown = DescribedAfter(m, k, <<>>)
    BY DEF ShownBehind
<1>2. m.status = "vararg" => \A d : d \in shown <=>
          d = Cr \/ \E c \in m.left : d \in Last(c)
    BY <1>1, ShownAfter, Zenon
<1>3. m.status = "vararg" =>
          Cr \in shown /\ \A d \in shown : d # Cr => \E c \in m.left : d \in Last(c)
    BY <1>2, Zenon
<1>4. m.status = "AMBIGUOUS" => shown = {}
    BY <1>1, ShownAfter, Zenon
<1>5. m.status = "more" => \A d : d \in shown <=>
          \/ d # Word(<<>>) /\ \E c \in m.left : d \in At(c, k + 1)
          \/ d = Cr /\ \E c \in m.left : Len(c) = k
    BY <1>1, ShownAfter, Zenon
<1> QED
    BY <1>3, <1>4, <1>5, Zenon DEF ShownIs

\* Whatever is shown is accepted.
LEMMA ShownGoesOn ==
    ASSUME NEW n \in Nodes, NEW k \in Nat, NEW m, NEW shown, ShownBehind(m, n, k, shown),
           NEW d \in shown, d # Cr, NEW w \in Examples(d)
    PROVE  GoesOn(Typing(m, w))
<1>1. Settled(m, n, k) /\ m.status \in Statuses
    BY DEF ShownBehind, Settled, Matches
<1>2. CASE m.status = "AMBIGUOUS"
    BY <1>2, WhatIsShown DEF ShownIs
<1>3. CASE m.status = "vararg"
    <2>2. \E c : c \in m.left
        BY <1>3, WhatIsShown DEF ShownIs
    <2>3. Typing(m, w) = m
        BY <1>3 DEF Typing, Round
    <2> QED
        BY <1>3, <2>2, <2>3 DEF GoesOn
<1>4. CASE m.status = "more"
    <2>1. m \in Matches(n) /\ m.words = k
        BY <1>1, <1>4 DEF Settled
    <2>2. \E c \in m.left : d \in At(c, k + 1)
        BY <1>4, WhatIsShown DEF ShownIs
    <2>3. PICK c \in m.left : d \in At(c, k + 1)
        BY <2>2
    <2> QED
        BY <1>4, <2>1, <2>3, OfferedIsAccepted
<1> QED
    BY <1>1, <1>2, <1>3, <1>4 DEF Statuses

\* With <cr> shown the line can be executed.
LEMMA CrRuns ==
    ASSUME NEW n \in Nodes, NEW k \in Nat, NEW m, NEW shown, ShownBehind(m, n, k, shown),
           Cr \in shown
    PROVE  Verdict(m, k).status = "SUCCESS"
<1>1. Settled(m, n, k) /\ m \in Matches(n) /\ m.status \in Statuses
    BY DEF ShownBehind, Settled, Matches
<1>2. CASE m.status = "AMBIGUOUS"
    BY <1>2, WhatIsShown DEF ShownIs
<1>3. CASE m.status = "vararg"
    <2>1. PICK x : m.left = {x}
        BY <1>1, <1>3 DEF Settled
    <2>2. Complete(m, k, x)
        BY <1>3, <2>1 DEF Complete
    <2> QED
        BY <1>1, <2>2, CompleteRuns
<1>4. CASE m.status = "more"
    <2>1. \/ \E c \in m.left : Cr \in At(c, k + 1)
          \/ \E c \in m.left : Len(c) = k
        BY <1>4, WhatIsShown DEF ShownIs
    <2>2. ~ \E c \in m.left : Cr \in At(c, k + 1)
        <3> SUFFICES ASSUME NEW c \in m.left, Cr \in At(c, k + 1) PROVE FALSE
            OBVIOUS
        <3>1. c \in CmdVec[n] /\ k + 1 \in Nat \ {0}
            BY <1>1 DEF Matches
        <3>2. Cr \in Alternatives
            BY <3>1, InPlace
        <3> QED
            BY <3>2 DEF Alternatives, Cr
    <2>3. PICK c \in m.left : Len(c) = k
        BY <2>1, <2>2
    <2>4. c \in CmdVec[n]
        BY <1>1 DEF Matches
    <2>5. k >= CmdSize(c)
        BY <2>3, <2>4, SizeIs DEF SizeOK
    <2>6. Complete(m, k, c)
        BY <1>4, <2>5 DEF Complete
    <2> QED
        BY <1>1, <2>6, CompleteRuns
<1> QED
    BY <1>1, <1>2, <1>3, <1>4 DEF Statuses

\* And what can be executed has <cr> shown, or an option.
LEMMA RunHasCr ==
    ASSUME NEW n \in Nodes, NEW k \in Nat, NEW m, NEW shown, ShownBehind(m, n, k, shown),
           Verdict(m, k).status = "SUCCESS"
    PROVE  \E d \in shown : d.kind \in {"cr", "option"}
<1> DEFINE c == Verdict(m, k).command
<1>1. Settled(m, n, k) /\ m \in Matches(n) /\ m.status \in Statuses
    BY DEF ShownBehind, Settled, Matches
<1>2. OnlyRun(m, k, c)
    BY <1>1, VerdictOfRun
<1> HIDE DEF c
<1>3. Cr.kind = "cr"
    BY DEF Cr
<1>4. CASE m.status = "vararg"
    BY <1>3, <1>4, WhatIsShown DEF ShownIs
<1>5. CASE m.status = "more"
    <2>1. c \in m.left /\ k >= CmdSize(c)
        BY <1>2, <1>5 DEF OnlyRun
    <2>2. AllAlike(m.left, k) /\ m.left \in SUBSET CmdVec[n] /\ c \in CmdVec[n]
        BY <1>1, <1>5, <2>1 DEF Settled, Matches
    <2>3. k <= Len(c) /\ Len(c) \in Nat
        <3>1. Len(c) \in Nat
            BY <2>2, CommandsAssumption
        <3> QED
            BY <2>1, <2>2, <3>1, LeftIsLong
    <2>4. CASE k = Len(c)
        <3>1. Cr \in shown
            BY <1>5, <2>1, <2>4, WhatIsShown DEF ShownIs
        <3> QED
            BY <1>3, <3>1
    <2>5. CASE k # Len(c)
        <3>1. Optional(c, k + 1)
            BY <2>1, <2>2, <2>3, <2>5, SizeIs DEF SizeOK
        <3>2. PICK d \in c[k + 1] : d.kind = "option"
            BY <3>1 DEF Optional
        <3>3. d \in At(c, k + 1)
            BY <2>3, <2>5 DEF At
        <3>4. d # Word(<<>>)
            BY <3>2 DEF Word
        <3>5. d \in shown
            BY <1>5, <2>1, <3>3, <3>4, WhatIsShown DEF ShownIs
        <3> QED
            BY <3>2, <3>5
    <2> QED
        BY <2>4, <2>5
<1> QED
    BY <1>1, <1>2, <1>4, <1>5 DEF Statuses, OnlyRun

\* A word that makes a command of the line was shown.
LEMMA NextWasShown ==
    ASSUME NEW n \in Nodes, NEW k \in Nat, NEW m, NEW shown, ShownBehind(m, n, k, shown),
           NEW w \in Words, Verdict(Typing(m, w), k + 1).status = "SUCCESS"
    PROVE  \E d \in shown : d = Cr \/ Completes(w, d) # "no"
<1> DEFINE m2 == Typing(m, w)
           c == Verdict(m2, k + 1).command
<1>1. Settled(m, n, k) /\ m \in Matches(n) /\ m.status \in Statuses
    BY DEF ShownBehind, Settled, Matches
<1>2. m2 \in Matches(n)
    <2>1. Continues(n, m, m2)
        BY <1>1, RoundKeeps, Zenon DEF Typing
    <2> QED
        BY <2>1 DEF Continues
<1>3. OnlyRun(m2, k + 1, c)
    BY <1>2, VerdictOfRun
<1>4. m2.status # "AMBIGUOUS" /\ c \in m2.left
    BY <1>3 DEF OnlyRun
<1> HIDE DEF c
<1>5. CASE m.status = "AMBIGUOUS"
    <2>1. m2 = m
        BY <1>5 DEF Typing, Round
    <2> QED
        BY <1>4, <1>5, <2>1
<1>6. CASE m.status = "vararg"
    BY <1>6, WhatIsShown DEF ShownIs
<1>7. CASE m.status = "more"
    <2>1. m.words = k
        BY <1>1, <1>7 DEF Settled
    <2>2. c \in m.left /\ \E d \in At(c, k + 1) : Completes(w, d) # "no"
        BY <1>1, <1>4, <1>7, <2>1, LeftCompletes
    <2>3. PICK d \in At(c, k + 1) : Completes(w, d) # "no"
        BY <2>2
    <2>4. d # Word(<<>>)
        <3> SUFFICES ASSUME d = Word(<<>>) PROVE FALSE
            OBVIOUS
        <3>1. d.kind = "word" /\ d.text = <<>>
            BY DEF Word
        <3>2. w # <<>> /\ w \in Seq(Letters)
            BY DEF Words
        <3>3. ~ IsPrefix(w, <<>>)
            BY <3>2, PrefixOfEmpty
        <3> QED
            BY <2>3, <3>1, <3>2, <3>3 DEF Completes
    <2>5. d \in shown
        BY <1>7, <2>2, <2>3, <2>4, WhatIsShown DEF ShownIs
    <2> QED
        BY <2>3, <2>5
<1> QED
    BY <1>1, <1>5, <1>6, <1>7 DEF Statuses

LEMMA TextOfShown ==
    ASSUME NEW n \in Nodes, NEW k \in Nat, NEW m, NEW shown, ShownBehind(m, n, k, shown),
           NEW d \in shown, d # Cr
    PROVE  d.text \in Seq(Letters)
<1>1. Settled(m, n, k) /\ m \in Matches(n) /\ m.status \in Statuses
    BY DEF ShownBehind, Settled, Matches
<1>2. ShownIs(m, k, shown)
    BY WhatIsShown
<1>3. ASSUME NEW c \in m.left, NEW i \in Nat \ {0}, d \in At(c, i) PROVE d.text \in Seq(Letters)
    <2>1. c \in CmdVec[n]
        BY <1>1 DEF Matches
    <2>2. d \in Alternatives
        BY <1>3, <2>1, InPlace
    <2> QED
        BY <2>2 DEF Alternatives
<1>4. CASE m.status = "AMBIGUOUS"
    BY <1>2, <1>4 DEF ShownIs
<1>5. CASE m.status = "vararg"
    <2>1. PICK c \in m.left : d \in Last(c)
        BY <1>2, <1>5 DEF ShownIs
    <2>2. Len(c) \in Nat \ {0}
        <3>1. c \in CmdVec[n]
            BY <1>1 DEF Matches
        <3> QED
            BY <3>1, CommandsAssumption
    <2>3. d \in At(c, Len(c))
        BY <2>1, <2>2 DEF At, Last
    <2> QED
        BY <1>3, <2>2, <2>3
<1>6. CASE m.status = "more"
    <2>1. \E c \in m.left : d \in At(c, k + 1)
        BY <1>2, <1>6 DEF ShownIs
    <2>2. k + 1 \in Nat \ {0}
        OBVIOUS
    <2> QED
        BY <1>3, <2>1, <2>2
<1> QED
    BY <1>1, <1>4, <1>5, <1>6 DEF Statuses

\* The line in its node: what it comes to, and what may be shown behind it.
Here(n, l, m, k) ==
    /\ n = InNode(node, line) /\ l = WordsOf(node, line)
    /\ m = Matched(FALSE, TRUE, n, l) /\ k = Len(l)

\* '?' prints what there is, or withholds it.
LEMMA PrintedHere ==
    ASSUME NEW n, NEW l, NEW m, NEW k, Here(n, l, m, k), NEW shown \in Described(node, line, TRUE)
    PROVE  shown = DescribedAfter(m, k, <<>>) \/ Withheld(shown)
<1>1. Described(node, line, TRUE)
        = Printed(Matched(FALSE, TRUE, InNode(node, line), WordsOf(node, line)),
                  Len(WordsOf(node, line)), <<>>)
    BY Zenon DEF Described, DescribedIn
<1>2. Described(node, line, TRUE) = Printed(m, k, <<>>)
    BY <1>1, Zenon DEF Here
<1>3. shown \in Printed(m, k, <<>>)
    BY <1>2
<1>4. shown = DescribedAfter(m, k, <<>>) \/ (shown = {} /\ m.status = "vararg")
    <2> DEFINE described == DescribedAfter(m, k, <<>>)
               withheld == IF m.status = "vararg" THEN {{}} ELSE {}
    <2>1. Printed(m, k, <<>>) = {described} \cup withheld
        BY Zenon DEF Printed
    <2>2. shown \in withheld => shown = {} /\ m.status = "vararg"
        OBVIOUS
    <2> HIDE DEF described, withheld
    <2>3. shown = described \/ shown \in withheld
        BY <1>3, <2>1
    <2> QED
        BY <2>2, <2>3 DEF described
<1>5. m = Matched(FALSE, TRUE, InNode(node, line), WordsOf(node, line))
    BY Zenon DEF Here
<1> QED
    BY <1>4, <1>5, Zenon DEF Withheld

LEMMA ShownHere ==
    ASSUME NEW n \in Nodes, NEW l, NEW m, NEW k \in Nat, Here(n, l, m, k), NEW shown,
           shown = DescribedAfter(m, k, <<>>)
    PROVE  /\ ShownBehind(m, n, k, shown)
           /\ RunsHere(line) <=> Verdict(m, k).status = "SUCCESS"
<1>3. Settled(Matched(FALSE, TRUE, n, l), n, Len(l))
    <2>1. Len(l) \in Nat
        BY DEF Here
    <2> QED
        BY <2>1, LineSettles, Zenon
<1>4. Settled(m, n, k)
    BY <1>3, Zenon DEF Here
<1>5. ExecutedHere(node, line) = Verdict(m, k)
    BY ExecutedIsVerdict, Zenon DEF ExecutedHere, Here
<1> QED
    BY <1>4, <1>5 DEF ShownBehind, RunsHere

\* With a word more.
LEMMA MoreHere ==
    ASSUME NEW n \in Nodes, NEW l, NEW m, NEW k \in Nat, Here(n, l, m, k),
           line \in Seq(Seq(Letters)), line # <<>>, NEW w \in Seq(Letters)
    PROVE  /\ Accepted(Append(line, w)) <=> GoesOn(Typing(m, w))
           /\ RunsHere(Append(line, w)) <=> Verdict(Typing(m, w), k + 1).status = "SUCCESS"
<1> DEFINE S == Seq(Letters)
           more == Append(line, w)
<1>1. /\ InNode(node, more) = InNode(node, line)
      /\ WordsOf(node, more) = Append(WordsOf(node, line), w)
      /\ WordsOf(node, line) \in Seq(S)
    BY AppendHere
<1>2. InNode(node, more) = n /\ WordsOf(node, more) = Append(l, w) /\ l \in Seq(S)
    BY <1>1 DEF Here
<1> HIDE DEF more
<1>3. Matched(FALSE, TRUE, n, Append(l, w)) = Round(FALSE, TRUE, Matched(FALSE, TRUE, n, l), w)
    <2>1. w \in S /\ l \in Seq(S)
        BY <1>2
    <2> HIDE DEF S
    <2>2. ASSUME NEW strict, NEW Ends
          PROVE  Matched(strict, Ends, n, Append(l, w))
                     = Round(strict, Ends, Matched(strict, Ends, n, l), w)
        BY <2>1, MatchedOfOneMore
    <2> QED
        BY <2>2, Zenon
<1>4. Matched(FALSE, TRUE, InNode(node, more), WordsOf(node, more)) = Typing(m, w)
    BY <1>2, <1>3, Zenon DEF Here, Typing
<1>5. Accepted(more)
        <=> Typing(m, w).status # "AMBIGUOUS" /\ Typing(m, w).left # {}
    BY <1>4, Zenon DEF Accepted
<1>6. Accepted(more) <=> GoesOn(Typing(m, w))
    BY <1>5 DEF GoesOn
<1>7. Len(Append(l, w)) = k + 1
    BY <1>2, AppendProperties DEF Here
<1>8. ExecutedHere(node, more) = Verdict(Typing(m, w), k + 1)
    BY <1>2, <1>4, <1>7, ExecutedIsVerdict, Zenon DEF ExecutedHere
<1> QED
    BY <1>6, <1>8 DEF RunsHere, more

\* What is shown is accepted, and what runs here was shown, unless it is withheld.
Tells(shown) ==
    /\ \A d \in shown \ {Cr} : \A w \in Examples(d) : Accepted(Append(line, w))
    /\ Cr \in shown => RunsHere(line)
    /\ RunsHere(line) => (\E d \in shown : d.kind \in {"cr", "option"}) \/ Withheld(shown)
    /\ \A w \in Typed : RunsHere(Append(line, w)) => Told(shown, w) \/ Withheld(shown)

LEMMA TellsHere ==
    ASSUME LineInv, line # <<>>, NEW shown \in Described(node, line, TRUE)
    PROVE  Tells(shown)
<1> DEFINE n == InNode(node, line)
           l == WordsOf(node, line)
           m == Matched(FALSE, TRUE, n, l)
           k == Len(l)
<1>1. n \in Nodes /\ l \in Seq(Words) /\ line \in Seq(Words)
    BY HereType DEF LineInv
<1>2. line \in Seq(Seq(Letters))
    BY <1>1 DEF Words
<1>3. k \in Nat
    BY <1>1
<1>4. Here(n, l, m, k)
    BY Zenon DEF Here
<1> HIDE DEF n, l, m, k
<1>5. CASE Withheld(shown)
    BY <1>5 DEF Withheld, Tells
<1>6. CASE shown = DescribedAfter(m, k, <<>>)
    <2>1. ShownBehind(m, n, k, shown) /\ (RunsHere(line) <=> Verdict(m, k).status = "SUCCESS")
        BY <1>1, <1>3, <1>4, <1>6, ShownHere
    <2>2. ASSUME NEW w \in Seq(Letters)
          PROVE  /\ Accepted(Append(line, w)) <=> GoesOn(Typing(m, w))
                 /\ RunsHere(Append(line, w)) <=> Verdict(Typing(m, w), k + 1).status = "SUCCESS"
        BY <1>1, <1>2, <1>3, <1>4, MoreHere
    <2>3. ASSUME NEW d \in shown \ {Cr}, NEW w \in Examples(d) PROVE Accepted(Append(line, w))
        <3>1. d.text \in Seq(Letters)
            BY <1>1, <1>3, <2>1, TextOfShown
        <3>2. w \in Seq(Letters)
            BY <3>1, TypedAssumption DEF Examples
        <3>3. GoesOn(Typing(m, w))
            BY <1>1, <1>3, <2>1, ShownGoesOn
        <3> QED
            BY <2>2, <3>2, <3>3
    <2>4. Cr \in shown => RunsHere(line)
        BY <1>1, <1>3, <2>1, CrRuns
    <2>5. RunsHere(line) => \E d \in shown : d.kind \in {"cr", "option"}
        BY <1>1, <1>3, <2>1, RunHasCr
    <2>6. ASSUME NEW w \in Typed, RunsHere(Append(line, w))
          PROVE  Told(shown, w)
        <3>1. w \in Words
            BY TypedType
        <3>2. Verdict(Typing(m, w), k + 1).status = "SUCCESS"
            BY <2>2, <2>6, <3>1 DEF Words
        <3> QED
            BY <1>1, <1>3, <2>1, <3>1, <3>2, NextWasShown DEF Told
    <2> QED
        BY <2>3, <2>4, <2>5, <2>6 DEF Tells
<1> QED
    BY <1>4, <1>5, <1>6, PrintedHere

LEMMA DescribesAccepted == LineInv => DescribedIsAccepted
<1> SUFFICES ASSUME LineInv, line # <<>>, space, NEW shown \in Described(node, line, TRUE)
             PROVE  /\ \A d \in shown \ {Cr} : \A w \in Examples(d) : Accepted(Append(line, w))
                    /\ Cr \in shown => RunsHere(line)
                    /\ Runs(line) => \/ \E d \in shown : d.kind \in {"cr", "option"}
                                     \/ FallsBack(node, line) \/ Withheld(shown)
                    /\ \A w \in Typed :
                         Runs(Append(line, w)) => \/ Told(shown, w)
                                                  \/ FallsBack(node, Append(line, w))
                                                  \/ Withheld(shown)
    BY Zenon DEF DescribedIsAccepted
<1>1. Tells(shown)
    BY TellsHere
<1>2. ASSUME NEW x PROVE Runs(x) => RunsHere(x) \/ FallsBack(node, x)
    BY WhereItRuns
<1> QED
    BY <1>1, <1>2 DEF Tells

\* What '?' shows is what may be typed (command.c:1540, 1913): whatever is shown is
\* accepted, with <cr> the line can be executed, and a word that makes a command of the
\* line was shown; except what only the parent node runs (command.c:2119), and all of it
\* behind a variable number of words, where no status is assigned (command.c:1602).
THEOREM WhatIsDescribedIsAccepted == Spec => []DescribedIsAccepted
<1> QED
    BY LineTypeCorrect, DescribesAccepted, PTL
=============================================================================
