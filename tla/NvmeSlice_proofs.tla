--------------------------- MODULE NvmeSlice_proofs ---------------------------
(***************************************************************************)
(* How a command is taken apart, for commands of any length, at any block, *)
(* with a buffer that starts anywhere in its first page and a first list   *)
(* that starts anywhere in its page: the walk over the PRP lists, the      *)
(* slices, their pieces and the places of the pieces in the entry.         *)
(***************************************************************************)
EXTENDS NvmeSlice, SequenceTheorems, FiniteSetTheorems, WellFoundedInduction, TLAPS

(***************************************************************************)
(* Induction over the numbers, over sets of them.                          *)
(***************************************************************************)
LEMMA LeastNumber ==
  ASSUME NEW T \in SUBSET Nat, T # {}
  PROVE  \E m \in T : \A n \in T : m <= n
<1> DEFINE Below == {0 .. n : n \in T}
<1>1. Below \subseteq FiniteSubsetsOf(Nat)
  <2>1. ASSUME NEW n \in T PROVE 0 .. n \in SUBSET Nat /\ IsFiniteSet(0 .. n)
    BY FS_Interval
  <2> QED
    BY <2>1 DEF FiniteSubsetsOf
<1>2. Below # {}
  OBVIOUS
<1>3. IsWellFoundedOn(StrictSubsetOrdering(Nat), FiniteSubsetsOf(Nat))
  BY FS_StrictSubsetOrderingWellFounded
<1> HIDE DEF Below
<1>4. PICK x \in Below : \A y \in Below : ~ (<<y, x>> \in StrictSubsetOrdering(Nat))
  BY <1>1, <1>2, <1>3, WFMin
<1>5. PICK m \in T : x = 0 .. m
  BY DEF Below
<1>6. ASSUME NEW n \in T, n < m PROVE FALSE
  <2>1. 0 .. n \in Below
    BY DEF Below
  <2>2. 0 .. n \subseteq 0 .. m /\ m \in 0 .. m /\ m \notin 0 .. n
    BY <1>6
  <2>3. <<0 .. n, 0 .. m>> \in StrictSubsetOrdering(Nat)
    BY <2>2, <2>1, <1>1, <1>4, <1>5 DEF StrictSubsetOrdering, FiniteSubsetsOf
  <2> QED
    BY <2>1, <2>3, <1>4, <1>5
<1> QED
  BY <1>6

\* A set of numbers that has 0, and with n the number n + 1, has them all.
LEMMA Induction ==
  ASSUME NEW P \in SUBSET Nat, 0 \in P, \A n \in P : n + 1 \in P
  PROVE  P = Nat
<1> DEFINE T == Nat \ P
<1>1. SUFFICES ASSUME T # {} PROVE FALSE
  OBVIOUS
<1>2. PICK m \in T : \A n \in T : m <= n
  BY <1>1, LeastNumber
<1>3. m - 1 \in Nat /\ m - 1 \notin T
  BY <1>2
<1>4. m - 1 \in P /\ (m - 1) + 1 = m
  BY <1>3, <1>2
<1> QED
  BY <1>4, <1>2

\* A loop that goes from state to state of S can be followed for ever.
IsRun(S, a, F, n, g) ==
  /\ g \in [0 .. n -> S] /\ g[0] = a
  /\ \A i \in 0 .. n - 1 : g[i + 1] = F[g[i]]

\* There is a run of every length from a.
LEMMA RunsExist ==
  ASSUME NEW S, NEW a \in S, NEW F \in [S -> S], NEW n \in Nat
  PROVE  \E g : IsRun(S, a, F, n, g)
<1> DEFINE P == {k \in Nat : \E g : IsRun(S, a, F, k, g)}
<1>1. 0 \in P
  <2>1. IsRun(S, a, F, 0, [i \in 0 .. 0 |-> a])
    BY DEF IsRun
  <2> QED
    BY <2>1
<1>2. ASSUME NEW k \in P PROVE k + 1 \in P
  <2>1. PICK g : IsRun(S, a, F, k, g)
    OBVIOUS
  <2> DEFINE h == [i \in 0 .. k + 1 |-> IF i <= k THEN g[i] ELSE F[g[k]]]
  <2>2. g[k] \in S /\ F[g[k]] \in S
    BY <2>1 DEF IsRun
  <2>3. h \in [0 .. k + 1 -> S]
    BY <2>1, <2>2 DEF IsRun
  <2>4. ASSUME NEW i \in 0 .. k PROVE h[i + 1] = F[h[i]]
    <3>1. CASE i = k
      BY <3>1
    <3>2. CASE i < k
      <4>1. i \in 0 .. k - 1 /\ i + 1 <= k
        BY <3>2
      <4> QED
        BY <4>1, <2>1 DEF IsRun
    <3> QED
      BY <3>1, <3>2
  <2>5. h[0] = a
    BY <2>1 DEF IsRun
  <2> HIDE DEF h
  <2>6. (k + 1) - 1 = k /\ k + 1 \in Nat
    OBVIOUS
  <2>7. IsRun(S, a, F, k + 1, h)
    BY <2>3, <2>4, <2>5, <2>6 DEF IsRun
  <2> QED
    BY <2>6, <2>7
<1>3. P = Nat
  <2> HIDE DEF P
  <2>1. P \in SUBSET Nat
    BY DEF P
  <2> QED
    BY <1>1, <1>2, <2>1, Induction
<1> QED
  BY <1>3

\* Two runs from a are the same as far as both go.
LEMMA RunsAgree ==
  ASSUME NEW S, NEW a, NEW F,
         NEW m \in Nat, NEW g, IsRun(S, a, F, m, g),
         NEW n \in Nat, NEW h, IsRun(S, a, F, n, h)
  PROVE  \A i \in Nat : i <= m /\ i <= n => g[i] = h[i]
<1> DEFINE P == {i \in Nat : i <= m /\ i <= n => g[i] = h[i]}
<1>1. 0 \in P
  BY DEF IsRun
<1>2. ASSUME NEW i \in P PROVE i + 1 \in P
  <2>1. ASSUME i + 1 <= m, i + 1 <= n PROVE g[i + 1] = h[i + 1]
    <3>1. i \in 0 .. m - 1 /\ i \in 0 .. n - 1 /\ g[i] = h[i]
      BY <2>1
    <3> QED
      BY <3>1 DEF IsRun
  <2> QED
    BY <2>1
<1>3. P = Nat
  BY <1>1, <1>2, Induction
<1> QED
  BY <1>3

\* So there is one that never ends: what a loop computes, turn by turn.
LEMMA Iterates ==
  ASSUME NEW S, NEW a \in S, NEW F \in [S -> S]
  PROVE  \E f \in [Nat -> S] : f[0] = a /\ \A n \in Nat : f[n + 1] = F[f[n]]
<1> DEFINE G(n) == CHOOSE g : IsRun(S, a, F, n, g)
           f == [n \in Nat |-> G(n)[n]]
<1>1. ASSUME NEW n \in Nat PROVE IsRun(S, a, F, n, G(n))
  <2>1. \E g : IsRun(S, a, F, n, g)
    BY RunsExist
  <2> QED
    BY <2>1
<1> HIDE DEF G
<1>2. ASSUME NEW n \in Nat PROVE f[n] \in S
  BY <1>1 DEF IsRun
<1>3. f[0] = a
  BY <1>1 DEF IsRun
<1>4. ASSUME NEW n \in Nat PROVE f[n + 1] = F[f[n]]
  <2>1. IsRun(S, a, F, n, G(n)) /\ IsRun(S, a, F, n + 1, G(n + 1)) /\ n + 1 \in Nat
    BY <1>1
  <2>2. G(n + 1)[n] = G(n)[n]
    <3>1. n <= n /\ n <= n + 1
      OBVIOUS
    <3> QED
      BY <2>1, <3>1, RunsAgree
  <2>3. n \in 0 .. (n + 1) - 1
    OBVIOUS
  <2>4. G(n + 1)[n + 1] = F[G(n + 1)[n]]
    BY <2>1, <2>3 DEF IsRun
  <2> QED
    BY <2>2, <2>4
<1>5. f \in [Nat -> S]
  BY <1>2
<1> QED
  BY <1>3, <1>4, <1>5

-----------------------------------------------------------------------------
\* Products and quotients, and the pages of a buffer.

\* Facts about products, which the arithmetic below is led back to.
LEMMA TimesNext == \A a, b \in Int : (a + 1) * b = a * b + b
  OBVIOUS

LEMMA TimesType == \A a, b \in Int : a * b \in Int
  OBVIOUS

LEMMA TimesNat == \A a, b \in Nat : a * b \in Nat
  OBVIOUS

LEMMA TimesGrows ==
  ASSUME NEW b \in Nat \ {0}, NEW a \in Nat
  PROVE  a * b >= a
<1> DEFINE P == {n \in Nat : n * b >= n}
<1>1. 0 \in P
  OBVIOUS
<1>2. ASSUME NEW n \in P PROVE n + 1 \in P
  <2>1. (n + 1) * b = n * b + b /\ n * b \in Int
    BY TimesNext, TimesType
  <2> QED
    BY <2>1
<1>3. P = Nat
  BY <1>1, <1>2, Induction
<1> QED
  BY <1>3

LEMMA TimesOrder ==
  ASSUME NEW b \in Nat, NEW m \in Int, NEW n \in Int, m <= n
  PROVE  m * b <= n * b
<1>1. (n - m) * b \in Nat
  BY TimesNat
<1>2. n * b = (n - m) * b + m * b
  OBVIOUS
<1>3. m * b \in Int /\ n * b \in Int
  BY TimesType
<1> QED
  BY <1>1, <1>2, <1>3

\* A quotient is the number of times that fit.
LEMMA DivIs ==
  ASSUME NEW L \in Nat \ {0}, NEW x \in Int, NEW q \in Int, q * L <= x, x < q * L + L
  PROVE  x \div L = q
<1> DEFINE d == x \div L
<1>1. d \in Int /\ d * L <= x /\ x < d * L + L
  OBVIOUS
<1> HIDE DEF d
<1>2. q * L \in Int /\ d * L \in Int /\ (d + 1) * L = d * L + L /\ (q + 1) * L = q * L + L
  BY <1>1, TimesNext, TimesType
<1>3. ~ d < q
  <2>1. SUFFICES ASSUME d + 1 <= q PROVE FALSE
    BY <1>1
  <2>2. (d + 1) * L <= q * L
    BY <1>1, <2>1, TimesOrder
  <2> QED
    BY <1>1, <1>2, <2>2
<1>4. ~ q < d
  <2>1. SUFFICES ASSUME q + 1 <= d PROVE FALSE
    BY <1>1
  <2>2. (q + 1) * L <= d * L
    BY <1>1, <2>1, TimesOrder
  <2> QED
    BY <1>1, <1>2, <2>2
<1>5. d = q
  BY <1>1, <1>3, <1>4
<1> QED
  BY <1>5 DEF d

IsCommand(c) ==
  /\ c.lba \in Nat /\ c.nlb \in Nat
  /\ c.offset \in 0 .. LBA_SIZE - 1 /\ c.listOffset \in 0 .. PRPS_PER_LIST - 1

\* handle_nvme_io_read and _write count the pages right.
LEMMA PrpNumIs ==
  ASSUME NEW c, IsCommand(c)
  PROVE  /\ Blocks(c) \in Nat \ {0} /\ DataLength(c) = Blocks(c) * LBA_SIZE
         /\ PrpNum(c) = IF c.offset = 0 THEN Blocks(c) ELSE Blocks(c) + 1
<1> DEFINE B == c.nlb + 1
           L == LBA_SIZE
<1>1. B \in Nat \ {0} /\ L \in Nat \ {0} /\ c.offset \in 0 .. L - 1
  BY SizesAssumption DEF IsCommand
<1>2. Blocks(c) = B /\ DataLength(c) = B * L /\ PrpNum(c) = (c.offset + B * L + L - 1) \div L
  BY DEF Blocks, DataLength, PrpNum
<1> HIDE DEF B, L
<1>3. B * L \in Int /\ (B + 1) * L = B * L + L
  BY <1>1, TimesNext, TimesType
<1>5. CASE c.offset = 0
  <2>1. B * L <= c.offset + B * L + L - 1 /\ c.offset + B * L + L - 1 < B * L + L
    BY <1>1, <1>3, <1>5
  <2>2. (c.offset + B * L + L - 1) \in Int /\ B \in Int
    BY <1>1, <1>3
  <2>3. (c.offset + B * L + L - 1) \div L = B
    BY <1>1, <2>1, <2>2, DivIs
  <2> QED
    BY <1>1, <1>2, <2>3, <1>5 DEF L
<1>6. CASE c.offset # 0
  <2>1. (B + 1) * L <= c.offset + B * L + L - 1 /\ c.offset + B * L + L - 1 < (B + 1) * L + L
    BY <1>1, <1>3, <1>6
  <2>2. (c.offset + B * L + L - 1) \in Int /\ B + 1 \in Int
    BY <1>1, <1>3
  <2>3. (c.offset + B * L + L - 1) \div L = B + 1
    BY <1>1, <2>1, <2>2, DivIs
  <2> QED
    BY <1>1, <1>2, <2>3, <1>6 DEF L
<1> QED
  BY <1>5, <1>6

-----------------------------------------------------------------------------
\* What the walk over the lists has seen so far: the first pages of the buffer.
WalkStates(c) ==
  {w \in [left : Nat, list : Nat \ {0}, start : 0 .. PRPS_PER_LIST - 1, prp : Seq(Nat)] :
     /\ w.left <= PrpNum(c) - 1
     /\ w.prp = [i \in 1 .. PrpNum(c) - w.left |-> i]
     /\ w.left > 0 => /\ w.start = ListStart(c, w.list)
                      /\ PagesBefore(c, w.list) = PrpNum(c) - 1 - w.left}

\* How many pages the lists before one name.
LEMMA PagesBeforeIs ==
  ASSUME NEW c, IsCommand(c), NEW list \in Nat \ {0}
  PROVE  /\ PagesBefore(c, list) \in Nat
         /\ PagesBefore(c, list) >= list - 2
         /\ PagesBefore(c, list + 1) = PagesBefore(c, list) + PRPS_PER_LIST - 1 - ListStart(c, list)
         /\ ListStart(c, list) \in 0 .. PRPS_PER_LIST - 1
<1> DEFINE q == PRPS_PER_LIST - 1
<1>1. q \in Nat \ {0} /\ c.listOffset \in 0 .. q /\ PRPS_PER_LIST = q + 1
  BY SizesAssumption DEF IsCommand
<1> HIDE DEF q
<1>2. CASE list = 1
  <2>1. (2 - 2) * q = 0
    BY <1>1
  <2>2. PagesBefore(c, 1) = 0 /\ PagesBefore(c, 2) = q - c.listOffset /\ ListStart(c, 1) = c.listOffset
    BY <1>1, <2>1 DEF PagesBefore, ListStart, q
  <2> QED
    BY <1>1, <1>2, <2>2
<1>3. CASE list # 1
  <2>1. list - 2 \in Nat /\ (list + 1) - 2 = (list - 2) + 1
    BY <1>3
  <2>2. (list - 2) * q >= list - 2 /\ (list - 2) * q \in Nat
    BY <1>1, <2>1, TimesGrows, TimesNat
  <2>3. ((list - 2) + 1) * q = (list - 2) * q + q
    BY <1>1, <2>1, TimesNext
  <2>4. PagesBefore(c, list) = (q - c.listOffset) + (list - 2) * q
    BY <1>3 DEF PagesBefore, q
  <2>5. PagesBefore(c, list + 1) = (q - c.listOffset) + ((list - 2) + 1) * q
    BY <1>3, <2>1 DEF PagesBefore, q
  <2>6. ListStart(c, list) = 0
    BY <1>3 DEF ListStart
  <2> QED
    BY <1>1, <2>1, <2>2, <2>3, <2>4, <2>5, <2>6
<1> QED
  BY <1>2, <1>3

\* The entry of a list names the next page of the buffer, the last entry of a
\* full list the next list.
LEMMA HostListIs ==
  ASSUME NEW c, IsCommand(c), NEW w \in WalkStates(c), w.left > 0,
         NEW i \in 1 .. PRPS_PER_LIST - w.start
  PROVE  LET n == PrpNum(c) - 1 - w.left + i
         IN  HostList(c, w.list, w.start + i - 1)
               = IF i = PRPS_PER_LIST - w.start /\ n < PrpNum(c) - 1 THEN NextList(w.list + 1)
                 ELSE Page(n + 1)
<1>1. /\ w.left \in Nat /\ w.start \in 0 .. PRPS_PER_LIST - 1
      /\ w.start = ListStart(c, w.list) /\ PagesBefore(c, w.list) = PrpNum(c) - 1 - w.left
  BY DEF WalkStates
<1>2. PrpNum(c) \in Nat /\ PRPS_PER_LIST \in Nat
  BY PrpNumIs, SizesAssumption
<1>3. PagesBefore(c, w.list) + (w.start + i - 1) - ListStart(c, w.list) + 1 = PrpNum(c) - 1 - w.left + i
  BY <1>1, <1>2
<1>4. w.start + i - 1 = PRPS_PER_LIST - 1 <=> i = PRPS_PER_LIST - w.start
  BY <1>1, <1>2
<1> QED
  BY <1>3, <1>4 DEF HostList

-----------------------------------------------------------------------------
\* The walk, as the turns of a loop.

IsIteration(f, S, a, F) == f \in [Nat -> S] /\ f[0] = a /\ \A n \in Nat : f[n + 1] = F[f[n]]

\* The loop of Iterates, its parts given by name.
LEMMA IterationsExist ==
  ASSUME NEW S, NEW a, NEW F, a \in S, F \in [S -> S]
  PROVE  \E f : IsIteration(f, S, a, F)
<1>1. a \in S /\ F \in [S -> S]
  OBVIOUS
<1>2. \E f \in [Nat -> S] : f[0] = a /\ \A n \in Nat : f[n + 1] = F[f[n]]
  BY <1>1, Iterates, SMT
<1> QED
  BY <1>2, Zenon DEF IsIteration

\* There is a page at least.
LEMMA PrpNumNat ==
  ASSUME NEW c, IsCommand(c)
  PROVE  PrpNum(c) \in Nat \ {0}
BY PrpNumIs

Count(n) == [i \in 1 .. n |-> i]
HostPages(c, w, n) == [i \in 1 .. n |-> HostList(c, w.list, w.start + i - 1).page]

\* Two stretches of page numbers make one.
LEMMA CountOn ==
  ASSUME NEW a \in Nat, NEW b \in Nat
  PROVE  [i \in 1 .. a |-> i] \o [i \in 1 .. b |-> a + i] = [i \in 1 .. a + b |-> i]
<1> DEFINE s == [i \in 1 .. a |-> i]
           t == [i \in 1 .. b |-> a + i]
           u == [i \in 1 .. a + b |-> i]
<1>1. s \in Seq(Nat) /\ t \in Seq(Nat) /\ u \in Seq(Nat)
  OBVIOUS
<1>2. Len(s) = a /\ Len(t) = b /\ Len(u) = a + b
  OBVIOUS
<1>3. /\ \A i \in 1 .. a : s[i] = i
      /\ \A i \in 1 .. b : t[i] = a + i
      /\ \A i \in 1 .. a + b : u[i] = i
  OBVIOUS
<1> HIDE DEF s, t, u
<1>4. s \o t \in Seq(Nat) /\ Len(s \o t) = Len(s) + Len(t)
  BY <1>1, ConcatProperties
<1>5. ASSUME NEW i \in 1 .. a + b PROVE (s \o t)[i] = u[i]
  <2>1. (s \o t)[i] = IF i <= a THEN s[i] ELSE t[i - a]
    BY <1>1, <1>2, ConcatProperties
  <2>2. i <= a \/ i - a \in 1 .. b
    OBVIOUS
  <2> QED
    BY <2>1, <2>2, <1>3
<1>6. s \o t = u
  BY <1>1, <1>2, <1>4, <1>5, SeqEqual
<1> QED
  BY <1>6 DEF s, t, u

\* The first n entries of a list go on where the pages before it end.
LEMMA PrpOfList ==
  ASSUME NEW c, IsCommand(c), NEW w \in WalkStates(c), w.left > 0, NEW n \in Nat,
         n <= w.left, n <= PRPS_PER_LIST - w.start, n = PRPS_PER_LIST - w.start => n = w.left
  PROVE  w.prp \o HostPages(c, w, n) = Count(PrpNum(c) - w.left + n)
<1>1. w.left \in Nat \ {0} /\ w.left <= PrpNum(c) - 1 /\ w.start \in 0 .. PRPS_PER_LIST - 1
  BY DEF WalkStates
<1>2. w.prp = [i \in 1 .. PrpNum(c) - w.left |-> i]
  BY DEF WalkStates
<1>3. PrpNum(c) \in Nat /\ PRPS_PER_LIST \in Nat
  BY PrpNumNat, SizesAssumption
<1>4. PICK a \in Nat : a = PrpNum(c) - w.left
  BY <1>1, <1>3
<1>5. ASSUME NEW i \in 1 .. n PROVE HostList(c, w.list, w.start + i - 1) = Page(a + i)
  <2>1. i \in 1 .. PRPS_PER_LIST - w.start
    BY <1>1, <1>3
  <2>2. PrpNum(c) - 1 - w.left + i = a - 1 + i /\ (a - 1 + i) + 1 = a + i
    BY <1>1, <1>3, <1>4
  <2>3. ~ (i = PRPS_PER_LIST - w.start /\ a - 1 + i < PrpNum(c) - 1)
    BY <1>1, <1>3, <1>4
  <2> QED
    BY <2>1, <2>2, <2>3, HostListIs
<1>6. [i \in 1 .. n |-> HostList(c, w.list, w.start + i - 1).page] = [i \in 1 .. n |-> a + i]
  <2>1. ASSUME NEW i \in 1 .. n PROVE HostList(c, w.list, w.start + i - 1).page = a + i
    <3>1. Page(a + i).page = a + i
      BY DEF Page
    <3> QED
      BY <1>5, <3>1
  <2> QED
    BY <2>1, Zenon
<1> QED
  <2>1. [i \in 1 .. a |-> i] \o [i \in 1 .. n |-> a + i] = [i \in 1 .. a + n |-> i]
    BY CountOn
  <2> QED
    BY <1>2, <1>4, <1>6, <2>1, Zenon DEF HostPages, Count

\* A turn of the walk keeps what WalkStates says, and goes to the next list.
LEMMA WalkStep ==
  ASSUME NEW c, IsCommand(c), NEW w \in WalkStates(c), w.left > 0
  PROVE  /\ WalkList(c, w) \in WalkStates(c)
         /\ WalkList(c, w).left > 0 => WalkList(c, w).list = w.list + 1
<1>1. /\ w.left \in Nat \ {0} /\ w.left <= PrpNum(c) - 1
      /\ w.list \in Nat \ {0} /\ w.start \in 0 .. PRPS_PER_LIST - 1
  BY DEF WalkStates
<1>2. w.start = ListStart(c, w.list) /\ PagesBefore(c, w.list) = PrpNum(c) - 1 - w.left
  BY DEF WalkStates
<1>3. PrpNum(c) \in Nat /\ PRPS_PER_LIST \in Nat
  BY PrpNumNat, SizesAssumption
<1>4. CASE w.left + w.start > PRPS_PER_LIST
  <2>1. PICK n \in Nat : n = PRPS_PER_LIST - w.start - 1
    BY <1>1, <1>3
  <2>2. /\ n < w.left /\ n <= PRPS_PER_LIST - w.start /\ n # PRPS_PER_LIST - w.start
        /\ w.left - n \in Nat /\ w.left - n <= PrpNum(c) - 1
        /\ PrpNum(c) - (w.left - n) = PrpNum(c) - w.left + n
        /\ PrpNum(c) - w.left + n \in Nat
    BY <1>1, <1>3, <1>4, <2>1
  <2>3. HostList(c, w.list, w.start + (PRPS_PER_LIST - w.start) - 1) = NextList(w.list + 1)
    <3>1. /\ PRPS_PER_LIST - w.start \in 1 .. PRPS_PER_LIST - w.start
          /\ PrpNum(c) - 1 - w.left + (PRPS_PER_LIST - w.start) < PrpNum(c) - 1
      BY <1>1, <1>3, <1>4
    <3> QED
      BY <3>1, HostListIs
  <2>4. w.prp \o HostPages(c, w, n) = Count(PrpNum(c) - w.left + n)
    <3>1. /\ w.left > 0 /\ n <= w.left /\ n <= PRPS_PER_LIST - w.start
          /\ n = PRPS_PER_LIST - w.start => n = w.left
      BY <1>1, <2>2
    <3> QED
      BY <3>1, PrpOfList, Zenon
  <2>5. (PRPS_PER_LIST - w.start) - 1 = n
    BY <1>1, <1>3, <2>1
  <2> DEFINE prp == Count(PrpNum(c) - w.left + n)
  <2>6. WalkList(c, w) = [left |-> w.left - n, list |-> w.list + 1, start |-> 0, prp |-> prp]
    <3>1. WalkList(c, w) = [left |-> w.left - n, list |-> NextList(w.list + 1).list,
                           start |-> NextList(w.list + 1).start,
                           prp |-> w.prp \o HostPages(c, w, n)]
      BY <1>4, <2>3, <2>5, Zenon DEF WalkList, HostPages
    <3>2. NextList(w.list + 1).list = w.list + 1 /\ NextList(w.list + 1).start = 0
      BY DEF NextList
    <3> QED
      BY <3>1, <3>2, <2>4, Zenon
  <2>7. ListStart(c, w.list + 1) = 0
    BY <1>1 DEF ListStart
  <2>8. PagesBefore(c, w.list + 1) = PagesBefore(c, w.list) + PRPS_PER_LIST - 1 - w.start
    BY <1>1, <1>2, PagesBeforeIs
  <2>9. PagesBefore(c, w.list + 1) = PrpNum(c) - 1 - (w.left - n)
    BY <1>1, <1>2, <1>3, <2>1, <2>8
  <2>10. Count(PrpNum(c) - w.left + n) \in Seq(Nat)
    BY <2>2 DEF Count
  <2>11. 0 \in 0 .. PRPS_PER_LIST - 1 /\ w.list + 1 \in Nat \ {0}
    BY <1>1, <1>3
  <2>12. WalkList(c, w) \in WalkStates(c)
    <3> HIDE DEF prp
    <3> DEFINE v == WalkList(c, w)
    <3>1. v \in [left : Nat, list : Nat \ {0}, start : 0 .. PRPS_PER_LIST - 1, prp : Seq(Nat)]
      BY <2>2, <2>6, <2>10, <2>11 DEF prp
    <3>2. v.left = w.left - n /\ v.list = w.list + 1 /\ v.start = 0 /\ v.prp = prp
      BY <2>6
    <3> HIDE DEF v
    <3>3. v.left <= PrpNum(c) - 1 /\ v.prp = Count(PrpNum(c) - v.left)
      BY <2>2, <3>2, Zenon DEF prp
    <3>4. v.start = ListStart(c, v.list) /\ PagesBefore(c, v.list) = PrpNum(c) - 1 - v.left
      BY <2>7, <2>9, <3>2, Zenon
    <3>5. v \in WalkStates(c)
      BY <3>1, <3>3, <3>4, Zenon DEF WalkStates, Count
    <3> QED
      BY <3>5 DEF v
  <2> QED
    BY <2>6, <2>12
<1>5. CASE ~ (w.left + w.start > PRPS_PER_LIST)
  <2>1. /\ w.left \in Nat /\ w.left <= PRPS_PER_LIST - w.start
        /\ PrpNum(c) - w.left + w.left = PrpNum(c) /\ w.left - w.left = 0 /\ PrpNum(c) - 0 = PrpNum(c)
        /\ 0 <= PrpNum(c) - 1
    BY <1>1, <1>3, <1>5
  <2>2. w.prp \o HostPages(c, w, w.left) = Count(PrpNum(c))
    <3>1. PICK n \in Nat : n = w.left
      BY <2>1
    <3>3. n <= w.left /\ n <= PRPS_PER_LIST - w.start /\ (n = PRPS_PER_LIST - w.start => n = w.left)
      BY <2>1, <3>1
    <3>2. w.prp \o HostPages(c, w, n) = Count(PrpNum(c) - w.left + n)
      BY <3>3, PrpOfList
    <3> QED
      BY <2>1, <3>1, <3>2, Zenon
  <2>3. WalkList(c, w) = [left |-> 0, list |-> w.list, start |-> w.start,
                         prp |-> Count(PrpNum(c))]
    BY <1>5, <2>1, <2>2, Zenon DEF WalkList, HostPages
  <2>4. Count(PrpNum(c)) \in Seq(Nat)
    BY <1>3 DEF Count
  <2>5. WalkList(c, w) \in WalkStates(c)
    <3> DEFINE v == WalkList(c, w)
               prp == Count(PrpNum(c))
    <3> HIDE DEF prp
    <3>1. v \in [left : Nat, list : Nat \ {0}, start : 0 .. PRPS_PER_LIST - 1, prp : Seq(Nat)]
      BY <1>1, <2>3, <2>4 DEF prp
    <3>2. v.left = 0 /\ v.prp = prp
      BY <2>3 DEF prp
    <3> HIDE DEF v
    <3>3. v.left <= PrpNum(c) - 1 /\ v.prp = Count(PrpNum(c) - v.left)
      BY <2>1, <3>2, Zenon DEF prp
    <3>4. ~ (v.left > 0)
      BY <3>2
    <3>5. v \in WalkStates(c)
      BY <3>1, <3>3, <3>4, Zenon DEF WalkStates, Count
    <3> QED
      BY <3>5 DEF v
  <2> QED
    BY <2>3, <2>5
<1> QED
  BY <1>4, <1>5

\* The walk ends within as many turns as there are pages, having seen them all.
LEMMA PrpWalkIs ==
  ASSUME NEW c, IsCommand(c), PrpNum(c) >= 1
  PROVE  PrpWalk(c) = [i \in 1 .. PrpNum(c) |-> i]
<1> DEFINE S == WalkStates(c)
           a == [left |-> PrpNum(c) - 1, list |-> 1, start |-> c.listOffset, prp |-> <<1>>]
           F == [w \in S |-> IF w.left = 0 THEN w ELSE WalkList(c, w)]
           Step(g) == [n \in Nat |-> IF n = 0 THEN a
                                     ELSE IF g[n - 1].left = 0 THEN g[n - 1] ELSE WalkList(c, g[n - 1])]
           walk == CHOOSE g : g = Step(g)
<1>1. PrpNum(c) \in Nat \ {0}
  BY PrpNumIs
<1>2. a \in S
  <2>1. <<1>> = [i \in 1 .. 1 |-> i] /\ <<1>> \in Seq(Nat)
    OBVIOUS
  <2>2. PrpNum(c) - (PrpNum(c) - 1) = 1
    BY <1>1
  <2>3. PagesBefore(c, 1) = 0 /\ ListStart(c, 1) = c.listOffset
    BY DEF PagesBefore, ListStart
  <2>4. a \in [left : Nat, list : Nat \ {0}, start : 0 .. PRPS_PER_LIST - 1, prp : Seq(Nat)]
    BY <1>1, <2>1 DEF IsCommand
  <2> QED
    BY <1>1, <2>1, <2>2, <2>3, <2>4 DEF WalkStates
<1>3. ASSUME NEW w \in S PROVE F[w] \in S /\ w.left \in Nat
  <2>1. w.left \in Nat
    BY DEF WalkStates
  <2>2. w.left # 0 => WalkList(c, w) \in S
    BY <2>1, WalkStep
  <2> QED
    BY <2>1, <2>2
<1>4. F \in [S -> S]
  BY <1>3
<1>5. PICK f : IsIteration(f, S, a, F)
  BY <1>2, <1>4, IterationsExist
<1>5a. f \in [Nat -> S] /\ f[0] = a /\ \A n \in Nat : f[n + 1] = F[f[n]]
  BY <1>5 DEF IsIteration
<1>6. ASSUME NEW n \in Nat, n # 0
      PROVE  f[n] = IF f[n - 1].left = 0 THEN f[n - 1] ELSE WalkList(c, f[n - 1])
  <2>1. n - 1 \in Nat /\ (n - 1) + 1 = n
    BY <1>6
  <2>2. f[n] = F[f[n - 1]] /\ f[n - 1] \in S
    BY <2>1, <1>5a
  <2> QED
    BY <2>2
<1>7. f = Step(f)
  <2>1. Step(f) = [n \in Nat |-> f[n]]
    BY <1>5a, <1>6
  <2> QED
    BY <2>1, <1>5a
<1>8. walk = Step(walk)
  BY <1>7
<1> HIDE DEF walk
<1>9. ASSUME NEW n \in Nat PROVE walk[n] = f[n]
  <2> DEFINE P == {k \in Nat : walk[k] = f[k]}
  <2>1. 0 \in P
    BY <1>8, <1>5a
  <2>2. ASSUME NEW k \in P PROVE k + 1 \in P
    <3>1. (k + 1) - 1 = k /\ k + 1 \in Nat /\ k + 1 # 0
      OBVIOUS
    <3>2. walk[k + 1] = IF walk[k].left = 0 THEN walk[k] ELSE WalkList(c, walk[k])
      BY <1>8, <3>1
    <3>3. f[k + 1] = IF f[k].left = 0 THEN f[k] ELSE WalkList(c, f[k])
      BY <1>6, <3>1
    <3> QED
      BY <3>1, <3>2, <3>3
  <2>3. P = Nat
    BY <2>1, <2>2, Induction
  <2> QED
    BY <2>3
<1>10. ASSUME NEW n \in Nat PROVE f[n].left = 0 \/ f[n].list = n + 1
  <2> DEFINE P == {k \in Nat : f[k].left = 0 \/ f[k].list = k + 1}
  <2>1. 0 \in P
    BY <1>5a
  <2>2. ASSUME NEW k \in P PROVE k + 1 \in P
    <3>1. (k + 1) - 1 = k /\ k + 1 \in Nat /\ k + 1 # 0
      OBVIOUS
    <3>2. f[k + 1] = IF f[k].left = 0 THEN f[k] ELSE WalkList(c, f[k])
      BY <1>6, <3>1
    <3>3. f[k] \in S /\ f[k].left \in Nat /\ f[k + 1] \in S /\ f[k + 1].left \in Nat
      BY <1>3, <1>5a, <3>1
    <3>4. CASE f[k].left = 0
      BY <3>1, <3>2, <3>4
    <3>5. CASE f[k].left # 0
      <4>1. f[k + 1] = WalkList(c, f[k]) /\ f[k].left > 0 /\ f[k].list = k + 1
        BY <3>2, <3>3, <3>5
      <4>2. f[k + 1].left > 0 => f[k + 1].list = (k + 1) + 1
        BY <4>1, <3>3, WalkStep
      <4> QED
        BY <4>2, <3>1, <3>3
    <3> QED
      BY <3>4, <3>5
  <2>3. P = Nat
    BY <2>1, <2>2, Induction
  <2> QED
    BY <2>3
<1>11. f[PrpNum(c)].left = 0
  <2> DEFINE w == f[PrpNum(c)]
  <2>1. w \in WalkStates(c) /\ (w.left = 0 \/ w.list = PrpNum(c) + 1)
    BY <1>1, <1>5a, <1>10
  <2> HIDE DEF w
  <2>2. SUFFICES ASSUME w.left > 0 PROVE FALSE
    BY <2>1 DEF w, WalkStates
  <2>3. PagesBefore(c, w.list) = PrpNum(c) - 1 - w.left /\ w.list = PrpNum(c) + 1 /\ w.left \in Nat
    BY <2>1, <2>2 DEF WalkStates
  <2>4. PagesBefore(c, PrpNum(c) + 1) >= (PrpNum(c) + 1) - 2
    BY <1>1, PagesBeforeIs
  <2> QED
    BY <1>1, <2>2, <2>3, <2>4
<1>12. f[PrpNum(c)].prp = [i \in 1 .. PrpNum(c) |-> i]
  <2>1. f[PrpNum(c)] \in WalkStates(c) /\ PrpNum(c) - 0 = PrpNum(c)
    BY <1>1, <1>5a
  <2> QED
    BY <2>1, <1>11 DEF WalkStates
<1>13. PrpWalk(c) = walk[PrpNum(c)].prp
  BY DEF PrpWalk, walk
<1> QED
  BY <1>1, <1>9, <1>12, <1>13

\* The pages ReqTransNvmeToSlice collects for a command are those of the host's
\* buffer, every one, in order: for any length, any offset of the buffer and any
\* place in the first PRP list, however many lists there are.
THEOREM PrpCollectedIs ==
  ASSUME NEW c, IsCommand(c)
  PROVE  PrpCollectedForSlice(c) = [i \in 1 .. PrpNum(c) |-> i]
<1>1. PrpNum(c) \in Nat \ {0}
  BY PrpNumIs
<1>2. PrpNum(c) = 1 => <<1>> = [i \in 1 .. PrpNum(c) |-> i]
  OBVIOUS
<1>3. PrpNum(c) = 2 => <<1, 2>> = [i \in 1 .. PrpNum(c) |-> i]
  OBVIOUS
<1>4. PrpWalk(c) = [i \in 1 .. PrpNum(c) |-> i]
  BY <1>1, PrpWalkIs
<1> QED
  BY <1>2, <1>3, <1>4 DEF PrpCollectedForSlice

\* Slice k takes num blocks from block start of the command on, and puts them
\* at offset of slice lsa.
IsSlice(c, k, num, offset, start, lsa) ==
  /\ num = NumOfNvmeBlock(c, k) /\ offset = NvmeBlockOffset(c, k)
  /\ start = StartIndex(c, k) /\ lsa = LogicalSliceAddr(c, k)
  /\ num \in Nat \ {0} /\ offset \in {0, 1} /\ offset + num <= NVME_BLOCKS_PER_SLICE
  /\ start \in Nat /\ lsa \in Nat
  /\ start + num <= Blocks(c)
  /\ IF k = SliceCount(c) THEN start + num = Blocks(c) ELSE StartIndex(c, k + 1) = start + num
  /\ lsa * NVME_BLOCKS_PER_SLICE + offset = c.lba + start
  /\ k = 1 <=> start = 0

\* Slices of one block.
LEMMA SlicesOfOneBlock ==
  ASSUME NEW c, IsCommand(c), NVME_BLOCKS_PER_SLICE = 1
  PROVE  /\ SliceCount(c) = Blocks(c)
         /\ \A k \in 1 .. Blocks(c) :
              /\ NumOfNvmeBlock(c, k) = 1 /\ NvmeBlockOffset(c, k) = 0
              /\ StartIndex(c, k) = k - 1 /\ LogicalSliceAddr(c, k) = c.lba + k - 1
<1>1. c.lba \in Nat /\ Blocks(c) \in Nat \ {0}
  BY PrpNumIs DEF IsCommand
<1>2. Lead(c) = 0 /\ Loop(c) = Blocks(c) /\ Trail(c) = 0
  BY <1>1 DEF Lead, Loop, Trail
<1>3. SliceCount(c) = Blocks(c)
  BY <1>1, <1>2 DEF SliceCount
<1>4. ASSUME NEW k \in 1 .. Blocks(c)
      PROVE  /\ NumOfNvmeBlock(c, k) = 1 /\ NvmeBlockOffset(c, k) = 0
             /\ StartIndex(c, k) = k - 1 /\ LogicalSliceAddr(c, k) = c.lba + k - 1
  <2>1. NumOfNvmeBlock(c, k) = 1
    BY <1>1, <1>2 DEF NumOfNvmeBlock
  <2>2. NvmeBlockOffset(c, k) = 0
    BY <1>2 DEF NvmeBlockOffset
  <2>3. StartIndex(c, k) = k - 1
    BY <1>1, <1>2 DEF StartIndex
  <2>4. LogicalSliceAddr(c, k) = c.lba + k - 1
    BY <1>1 DEF LogicalSliceAddr
  <2> QED
    BY <2>1, <2>2, <2>3, <2>4
<1> QED
  BY <1>3, <1>4

\* Halves, for slices of two.
LEMMA HalvesOf ==
  ASSUME NEW q \in Nat, NEW r \in 0 .. 1
  PROVE  (2 * q + r) % 2 = r /\ (2 * q + r) \div 2 = q
OBVIOUS

LEMMA Halves ==
  ASSUME NEW x \in Nat
  PROVE  \E q \in Nat, r \in 0 .. 1 : x = 2 * q + r /\ x \div 2 = q /\ x % 2 = r
<1>1. x \div 2 \in Nat /\ 2 * (x \div 2) <= x /\ x < 2 * (x \div 2) + 2
  OBVIOUS
<1>2. PICK q : q = x \div 2
  OBVIOUS
<1>3. PICK r : r = x - 2 * q
  OBVIOUS
<1>4. q \in Nat /\ r \in 0 .. 1 /\ x = 2 * q + r
  BY <1>1, <1>2, <1>3
<1>5. x % 2 = r /\ x \div 2 = q
  BY <1>4, HalvesOf
<1> QED
  BY <1>4, <1>5

LEMMA SlicesOfTwoBlocks ==
  ASSUME NEW c, IsCommand(c), NVME_BLOCKS_PER_SLICE = 2, NEW k \in 1 .. SliceCount(c)
  PROVE  IsSlice(c, k, NumOfNvmeBlock(c, k), NvmeBlockOffset(c, k), StartIndex(c, k), LogicalSliceAddr(c, k))
<1>1. c.lba \in Nat /\ Blocks(c) \in Nat \ {0}
  BY PrpNumIs DEF IsCommand
<1>2. PICK q \in Nat, r \in 0 .. 1 : c.lba = 2 * q + r /\ c.lba \div 2 = q /\ c.lba % 2 = r
  BY <1>1, Halves
<1>3. PICK p \in Nat, t \in 0 .. 1 :
        /\ r + Blocks(c) = 2 * p + t
        /\ (r + Blocks(c)) \div 2 = p /\ (r + Blocks(c)) % 2 = t
  <2>1. r + Blocks(c) \in Nat
    BY <1>1
  <2> QED
    BY <2>1, Halves
<1>4. c.lba % 2 = r /\ c.lba \div 2 = q
  BY <1>2
<1>5. (r + Blocks(c)) \div 2 = p
  BY <1>3
<1>6. (c.lba + Blocks(c)) % 2 = t
  <2>1. PICK b : b = Blocks(c)
    OBVIOUS
  <2>2. b = 2 * p + t - r /\ c.lba + b = 2 * q + r + b
    BY <1>1, <1>2, <1>3, <2>1
  <2>3. 2 * (q + p) = 2 * q + 2 * p /\ q + p \in Nat
    OBVIOUS
  <2>4. c.lba + b = 2 * (q + p) + t
    BY <2>2, <2>3
  <2> QED
    BY <2>1, <2>3, <2>4, HalvesOf
<1>7. Lead(c) = r /\ Loop(c) = p /\ Trail(c) = t
  BY <1>4, <1>5, <1>6 DEF Lead, Loop, Trail
<1>8. SliceCount(c) = IF p = 0 THEN 1 ELSE p + t
  BY <1>7, <1>1, <1>3 DEF SliceCount
<1>9. k \in Nat /\ 1 <= k /\ k <= SliceCount(c) /\ (p = 0 => k = 1 /\ Blocks(c) = 1 /\ r = 0 /\ t = 1)
  BY <1>1, <1>3, <1>8
<1>10. NumOfNvmeBlock(c, k) = IF k = 1 THEN IF p = 0 THEN 1 ELSE 2 - r ELSE IF k <= p THEN 2 ELSE t
  BY <1>7, <1>9 DEF NumOfNvmeBlock
<1>11. NvmeBlockOffset(c, k) = IF k = 1 THEN r ELSE 0
  BY <1>7 DEF NvmeBlockOffset
<1>12. /\ StartIndex(c, k) = IF k = 1 THEN 0 ELSE 2 * k - 2 - r
       /\ StartIndex(c, k + 1) = 2 * k - r
  BY <1>7, <1>9 DEF StartIndex
<1>13. LogicalSliceAddr(c, k) = q + k - 1
  BY <1>4 DEF LogicalSliceAddr
<1>14. CASE p = 0
  BY <1>14, <1>1, <1>2, <1>3, <1>8, <1>9, <1>10, <1>11, <1>12, <1>13 DEF IsSlice
<1>15. CASE p # 0 /\ k = 1
  <2>1. /\ NumOfNvmeBlock(c, k) = 2 - r /\ NvmeBlockOffset(c, k) = r /\ StartIndex(c, k) = 0
        /\ LogicalSliceAddr(c, k) = q /\ StartIndex(c, k + 1) = 2 - r /\ SliceCount(c) = p + t
    BY <1>15, <1>8, <1>10, <1>11, <1>12, <1>13
  <2>2. 2 - r <= Blocks(c) /\ (1 = p + t => 2 - r = Blocks(c))
    <3>1. PICK b \in Nat : b = Blocks(c)
      BY <1>1
    <3>2. r + b = 2 * p + t /\ p >= 1
      BY <1>3, <1>15, <3>1
    <3>3. 2 - r <= b /\ (1 = p + t => 2 - r = b)
      BY <3>2
    <3> QED
      BY <3>1, <3>3
  <2>3. q * 2 + r = c.lba
    BY <1>2
  <2> QED
    BY <2>1, <2>2, <2>3, <1>15, <1>1 DEF IsSlice
<1>16. CASE p # 0 /\ k > 1
  <2>1. ASSUME k = SliceCount(c) PROVE 2 * k - 2 - r + NumOfNvmeBlock(c, k) = Blocks(c)
    <3>1. k = p + t
      BY <1>16, <1>8, <2>1
    <3>2. NumOfNvmeBlock(c, k) = 2 - t
      BY <1>16, <3>1, <1>10
    <3> QED
      BY <3>1, <3>2, <1>1, <1>3
  <2>2. k # SliceCount(c) => k <= p
    BY <1>16, <1>3, <1>8, <1>9, <1>10
  <2>0. k # SliceCount(c) => NumOfNvmeBlock(c, k) = 2
    BY <2>2, <1>16, <1>10
  <2>3. 2 * k - 2 - r + NumOfNvmeBlock(c, k) <= Blocks(c)
    <3>1. CASE k = SliceCount(c)
      BY <3>1, <2>1, <1>1
    <3>2. CASE k # SliceCount(c)
      BY <3>2, <2>0, <2>2, <1>1, <1>3, <1>9
    <3> QED
      BY <3>1, <3>2
  <2>4. NumOfNvmeBlock(c, k) \in {1, 2}
    <3>1. CASE k <= p
      BY <3>1, <1>16, <1>10
    <3>2. CASE k > p
      <4>1. k = p + t /\ k = p + 1
        BY <3>2, <1>16, <1>8, <1>9
      <4> QED
        BY <3>2, <4>1, <1>16, <1>10
    <3> QED
      BY <3>1, <3>2, <1>9
  <2>5. (q + k - 1) * 2 = c.lba + (2 * k - 2 - r)
    BY <1>1, <1>2, <1>9
  <2> QED
    BY <2>1, <2>2, <2>3, <2>4, <2>5, <1>16, <1>1, <1>2, <1>9, <1>10, <1>11, <1>12, <1>13 DEF IsSlice
<1> QED
  BY <1>9, <1>14, <1>15, <1>16

\* The slices of a command, the first transform, the loop and the last transform
\* together, are its blocks from the first to the last, each once and each at its
\* place in its slice; for any first block and any number of blocks.
THEOREM SlicesAre ==
  ASSUME NEW c, IsCommand(c)
  PROVE  /\ SliceCount(c) \in Nat \ {0}
         /\ \A k \in 1 .. SliceCount(c) :
              IsSlice(c, k, NumOfNvmeBlock(c, k), NvmeBlockOffset(c, k), StartIndex(c, k), LogicalSliceAddr(c, k))
<1>1. c.lba \in Nat /\ Blocks(c) \in Nat \ {0}
  BY PrpNumIs DEF IsCommand
<1>2. CASE NVME_BLOCKS_PER_SLICE = 1
  <2>1. SliceCount(c) = Blocks(c)
    BY <1>2, SlicesOfOneBlock
  <2>2. ASSUME NEW k \in 1 .. SliceCount(c)
        PROVE  IsSlice(c, k, NumOfNvmeBlock(c, k), NvmeBlockOffset(c, k), StartIndex(c, k), LogicalSliceAddr(c, k))
    <3>1. /\ NumOfNvmeBlock(c, k) = 1 /\ NvmeBlockOffset(c, k) = 0
          /\ StartIndex(c, k) = k - 1 /\ LogicalSliceAddr(c, k) = c.lba + k - 1
      BY <1>2, <2>1, SlicesOfOneBlock
    <3>2. k # SliceCount(c) => k + 1 \in 1 .. Blocks(c)
      BY <2>1, <1>1
    <3>3. k # SliceCount(c) => StartIndex(c, k + 1) = (k + 1) - 1
      BY <1>2, <3>2, SlicesOfOneBlock
    <3> QED
      BY <1>1, <1>2, <2>1, <3>1, <3>3 DEF IsSlice
  <2> QED
    BY <1>1, <2>1, <2>2
<1>3. CASE NVME_BLOCKS_PER_SLICE = 2
  <2>1. SliceCount(c) \in Nat \ {0}
    <3>1. Lead(c) \in Nat
      BY <1>1, <1>3, Halves DEF Lead
    <3>2. Lead(c) + Blocks(c) \in Nat
      BY <1>1, <3>1
    <3>3. Loop(c) \in Nat
      BY <1>3, <3>2, Halves DEF Loop
    <3> QED
      BY <3>3 DEF SliceCount
  <2> QED
    BY <2>1, <1>3, SlicesOfTwoBlocks
<1> QED
  BY <1>2, <1>3, SizesAssumption

-----------------------------------------------------------------------------
\* The pieces of a slice.

\* What a page has of the buffer.
LEMMA DataLengthOfPageIs ==
  ASSUME NEW c, IsCommand(c), NEW i \in 1 .. Blocks(c)
  PROVE  DataLengthOfPage(c, i) = IF i = 1 THEN LBA_SIZE - c.offset ELSE LBA_SIZE
<1>1. Blocks(c) \in Nat \ {0} /\ DataLength(c) = Blocks(c) * LBA_SIZE
  BY PrpNumIs
<1>2. LBA_SIZE \in Nat \ {0} /\ c.offset \in 0 .. LBA_SIZE - 1
  BY SizesAssumption DEF IsCommand
<1>3. CASE i = 1
  BY <1>3 DEF DataLengthOfPage
<1>4. CASE i # 1
  <2>1. PICK x \in Int, y \in Int : x = Blocks(c) * LBA_SIZE /\ y = (i - 2) * LBA_SIZE
    BY <1>1, <1>2, TimesType
  <2>2. ((i - 2) + 1) * LBA_SIZE = y + LBA_SIZE /\ ((i - 2) + 1 + 1) * LBA_SIZE = y + LBA_SIZE + LBA_SIZE
    <3>1. i - 2 \in Int /\ i - 2 + 1 \in Int /\ LBA_SIZE \in Int
      BY <1>2
    <3> QED
      BY <2>1, <3>1, TimesNext
  <2>3. (i - 2) + 1 + 1 <= Blocks(c) /\ (i - 2) + 1 + 1 \in Int
    BY <1>1
  <2>4. ((i - 2) + 1 + 1) * LBA_SIZE <= Blocks(c) * LBA_SIZE
    BY <1>1, <1>2, <2>3, TimesOrder
  <2>5. y + LBA_SIZE + LBA_SIZE <= x
    BY <2>1, <2>2, <2>4
  <2>6. DataLengthOfPage(c, i) = LeastOf(LBA_SIZE, x - (LBA_SIZE - c.offset) - y)
    BY <1>1, <1>4, <2>1 DEF DataLengthOfPage
  <2>7. LeastOf(LBA_SIZE, x - (LBA_SIZE - c.offset) - y) = LBA_SIZE
    BY <1>2, <2>5 DEF LeastOf
  <2> QED
    BY <1>4, <2>6, <2>7
<1> QED
  BY <1>3, <1>4

\* What there is to know of a slice before its pieces.
MoveCount(c, k) == IF c.offset = 0 THEN NumOfNvmeBlock(c, k) ELSE NumOfNvmeBlock(c, k) + 1
Base(c, k) == IF NvmeBlockOffset(c, k) = 0 THEN 0 ELSE LBA_SIZE
MoveUnit(c, i) == IF i = 1 THEN c.offset ELSE 0
MoveLen(c, k, i) ==
  IF i = 1 THEN LBA_SIZE - c.offset
  ELSE IF i = NumOfNvmeBlock(c, k) + 1 THEN c.offset ELSE LBA_SIZE
MoveAt(c, k, i) ==
  Base(c, k) + IF i = 1 THEN 0 ELSE IF i = 2 THEN LBA_SIZE - c.offset ELSE LBA_SIZE + LBA_SIZE - c.offset

\* Their bounds.
LEMMA SliceSizes ==
  ASSUME NEW c, IsCommand(c), NEW k \in 1 .. SliceCount(c)
  PROVE  /\ k \in Nat \ {0} /\ NumOfNvmeBlock(c, k) \in {1, 2} /\ NvmeBlockOffset(c, k) \in {0, 1}
         /\ NvmeBlockOffset(c, k) + NumOfNvmeBlock(c, k) <= NVME_BLOCKS_PER_SLICE
         /\ StartIndex(c, k) \in Nat /\ StartIndex(c, k) + NumOfNvmeBlock(c, k) <= Blocks(c)
         /\ c.offset \in 0 .. LBA_SIZE - 1 /\ LBA_SIZE \in Nat \ {0} /\ Blocks(c) \in Nat \ {0}
         /\ MoveCount(c, k) \in 1 .. 3
<1>1. IsSlice(c, k, NumOfNvmeBlock(c, k), NvmeBlockOffset(c, k), StartIndex(c, k), LogicalSliceAddr(c, k))
      /\ SliceCount(c) \in Nat \ {0}
  BY SlicesAre
<1>2. c.offset \in 0 .. LBA_SIZE - 1 /\ LBA_SIZE \in Nat \ {0} /\ NVME_BLOCKS_PER_SLICE \in {1, 2}
  BY SizesAssumption DEF IsCommand
<1>3. NumOfNvmeBlock(c, k) \in {1, 2}
  BY <1>1, <1>2 DEF IsSlice
<1>4. MoveCount(c, k) \in 1 .. 3
  BY <1>3 DEF MoveCount
<1> QED
  BY <1>1, <1>2, <1>3, <1>4, PrpNumIs DEF IsSlice

\* The pieces of a slice.
LEMMA PiecesAre ==
  ASSUME NEW c, IsCommand(c), NEW k \in 1 .. SliceCount(c)
  PROVE  /\ Pieces(c, k) \in Seq([page : Nat, unit : Nat, len : Nat])
         /\ Len(Pieces(c, k)) = MoveCount(c, k)
         /\ \A i \in 1 .. MoveCount(c, k) :
              Pieces(c, k)[i] = Piece(StartIndex(c, k) + i, MoveUnit(c, i), MoveLen(c, k, i))
<1> DEFINE prp == PrpCollectedForSlice(c)
           first == StartIndex(c, k)
           n == NumOfNvmeBlock(c, k)
           item(i) == IF i = 1 /\ c.offset # 0
                      THEN Piece(prp[first + 1], c.offset,
                                 DataLengthOfPage(c, first + 1) - IF first = 0 THEN 0 ELSE c.offset)
                      ELSE Piece(prp[first + i], 0, DataLengthOfPage(c, first + i))
           whole == [i \in 1 .. n |-> item(i)]
           last == Piece(prp[first + n + 1], 0, c.offset)
           Set == [page : Nat, unit : Nat, len : Nat]
<1>1. /\ n \in {1, 2} /\ first \in Nat /\ first + n <= Blocks(c)
      /\ c.offset \in 0 .. LBA_SIZE - 1 /\ LBA_SIZE \in Nat \ {0} /\ Blocks(c) \in Nat \ {0}
  BY SliceSizes
<1>2. \A i \in 1 .. Blocks(c) + 1 : i <= Blocks(c) \/ c.offset # 0 => prp[i] = i
  <2>1. prp = [i \in 1 .. PrpNum(c) |-> i]
    BY PrpCollectedIs
  <2>2. PrpNum(c) = IF c.offset = 0 THEN Blocks(c) ELSE Blocks(c) + 1
    BY PrpNumIs
  <2> HIDE DEF prp
  <2> QED
    BY <1>1, <2>1, <2>2
<1>3. \A i \in 1 .. Blocks(c) : DataLengthOfPage(c, i) = IF i = 1 THEN LBA_SIZE - c.offset ELSE LBA_SIZE
  BY DataLengthOfPageIs
<1>4. Pieces(c, k) = IF c.offset = 0 THEN whole ELSE Append(whole, last)
  BY DEF Pieces
<1>5. ASSUME NEW i \in 1 .. n PROVE item(i) = Piece(first + i, MoveUnit(c, i), MoveLen(c, k, i))
  <2>1. first + i \in 1 .. Blocks(c) /\ i # n + 1
    BY <1>1
  <2>2. prp[first + i] = first + i
    <3> HIDE DEF prp, first, n
    <3> QED
      BY <1>1, <1>2, <2>1
  <2>3. DataLengthOfPage(c, first + i) = IF first + i = 1 THEN LBA_SIZE - c.offset ELSE LBA_SIZE
    BY <1>3, <2>1
  <2>4. CASE i = 1
    <3>1. DataLengthOfPage(c, first + 1) - (IF first = 0 THEN 0 ELSE c.offset) = LBA_SIZE - c.offset
      BY <1>1, <2>3, <2>4
    <3>2. c.offset = 0 => DataLengthOfPage(c, first + 1) = LBA_SIZE - c.offset
      BY <1>1, <2>3, <2>4
    <3>3. MoveUnit(c, i) = c.offset /\ MoveLen(c, k, i) = LBA_SIZE - c.offset
      BY <2>4 DEF MoveUnit, MoveLen
    <3> HIDE DEF prp, first, n
    <3> QED
      BY <2>2, <2>4, <3>1, <3>2, <3>3
  <2>5. CASE i # 1
    <3>1. MoveUnit(c, i) = 0 /\ MoveLen(c, k, i) = LBA_SIZE
      BY <2>1, <2>5 DEF MoveUnit, MoveLen
    <3>2. first + i # 1
      BY <1>1, <2>5
    <3> HIDE DEF prp, first, n
    <3> QED
      BY <2>2, <2>3, <2>5, <3>1, <3>2
  <2> QED
    BY <2>4, <2>5
<1>6. c.offset # 0 => last = Piece(first + n + 1, MoveUnit(c, n + 1), MoveLen(c, k, n + 1))
  <2>1. c.offset # 0 => prp[first + n + 1] = first + n + 1
    <3>1. first + n + 1 \in 1 .. Blocks(c) + 1
      BY <1>1
    <3> HIDE DEF prp, first, n
    <3> QED
      BY <1>2, <3>1
  <2>2. MoveUnit(c, n + 1) = 0 /\ MoveLen(c, k, n + 1) = c.offset
    BY <1>1 DEF MoveUnit, MoveLen
  <2> QED
    BY <2>1, <2>2
<1>7. ASSUME NEW i \in 1 .. n + 1
      PROVE  Piece(first + i, MoveUnit(c, i), MoveLen(c, k, i)) \in Set
  <2>1. MoveUnit(c, i) \in Nat /\ MoveLen(c, k, i) \in Nat /\ first + i \in Nat
    BY <1>1 DEF MoveUnit, MoveLen
  <2> QED
    BY <2>1 DEF Piece
<1>8. whole \in Seq(Set) /\ Len(whole) = n /\ \A i \in 1 .. n : whole[i] = item(i)
  <2>1. \A i \in 1 .. n : item(i) \in Set
    <3> HIDE DEF item, first, Set
    <3> QED
      BY <1>1, <1>5, <1>7
  <2> HIDE DEF item, Set
  <2>2. n \in Nat
    BY <1>1
  <2> HIDE DEF n
  <2> QED
    BY <2>1, <2>2
<1> HIDE DEF whole, item, prp
<1>9. CASE c.offset = 0
  <2>1. MoveCount(c, k) = n /\ Pieces(c, k) = whole
    BY <1>4, <1>9 DEF MoveCount
  <2>2. \A i \in 1 .. n : whole[i] = Piece(first + i, MoveUnit(c, i), MoveLen(c, k, i))
    BY <1>5, <1>8, Zenon
  <2> QED
    BY <2>1, <2>2, <1>8, Zenon
<1>10. CASE c.offset # 0
  <2>1. MoveCount(c, k) = n + 1 /\ Pieces(c, k) = Append(whole, last)
    BY <1>4, <1>10 DEF MoveCount
  <2>2. last = Piece(first + (n + 1), MoveUnit(c, n + 1), MoveLen(c, k, n + 1))
    BY <1>1, <1>6, <1>10
  <2>3. last \in Set
    <3>1. n + 1 \in 1 .. n + 1
      BY <1>1
    <3> HIDE DEF last, Set, n, first
    <3> QED
      BY <1>7, <2>2, <3>1
  <2> HIDE DEF last, Set
  <2>4. /\ Append(whole, last) \in Seq(Set) /\ Len(Append(whole, last)) = n + 1
        /\ \A i \in 1 .. n : Append(whole, last)[i] = whole[i]
        /\ Append(whole, last)[n + 1] = last
    BY <1>8, <2>3, AppendProperties
  <2> HIDE DEF first
  <2>5. ASSUME NEW i \in 1 .. n + 1
        PROVE  Append(whole, last)[i] = Piece(first + i, MoveUnit(c, i), MoveLen(c, k, i))
    <3>1. i \in 1 .. n \/ i = n + 1
      BY <1>1
    <3> HIDE DEF n
    <3> QED
      BY <3>1, <1>5, <1>8, <2>2, <2>4
  <2> HIDE DEF n
  <2> QED
    BY <2>1, <2>4, <2>5, Zenon DEF Set, first, n
<1> QED
  BY <1>9, <1>10

-----------------------------------------------------------------------------
\* Where the pieces go.

\* A function that satisfies the equation of a recursive definition is what
\* the definition chooses.
Offsets(c, k, g) ==
  g = [i \in 1 .. Len(Pieces(c, k)) |->
         IF i = 1 THEN IF NvmeBlockOffset(c, k) = 0 THEN 0 ELSE LBA_SIZE
         ELSE g[i - 1] + Pieces(c, k)[i - 1].len]

\* Where IssueNvmeDmaReq puts a piece in the entry.
LEMMA DdrOffsetIs ==
  ASSUME NEW c, IsCommand(c), NEW k \in 1 .. SliceCount(c), NEW i \in 1 .. MoveCount(c, k)
  PROVE  DdrOffset(c, k)[i] = MoveAt(c, k, i)
<1>1. /\ Len(Pieces(c, k)) = MoveCount(c, k) /\ MoveCount(c, k) \in 1 .. 3
      /\ LBA_SIZE \in Nat \ {0} /\ c.offset \in 0 .. LBA_SIZE - 1
  BY SliceSizes, PiecesAre
<1>2. ASSUME NEW j \in 1 .. MoveCount(c, k), j # MoveCount(c, k)
      PROVE  Pieces(c, k)[j].len = IF j = 1 THEN LBA_SIZE - c.offset ELSE LBA_SIZE
  <2>1. Pieces(c, k)[j] = Piece(StartIndex(c, k) + j, MoveUnit(c, j), MoveLen(c, k, j))
    BY PiecesAre
  <2>2. Pieces(c, k)[j].len = MoveLen(c, k, j)
    BY <2>1 DEF Piece
  <2>3. j # NumOfNvmeBlock(c, k) + 1
    BY <1>2, SliceSizes DEF MoveCount
  <2> QED
    BY <2>2, <2>3 DEF MoveLen
<1> DEFINE g == [j \in 1 .. MoveCount(c, k) |-> MoveAt(c, k, j)]
<1>3. Base(c, k) \in Nat /\ Base(c, k) = IF NvmeBlockOffset(c, k) = 0 THEN 0 ELSE LBA_SIZE
  BY <1>1 DEF Base
<1>4. ASSUME NEW j \in 1 .. MoveCount(c, k)
      PROVE  g[j] = IF j = 1 THEN Base(c, k) ELSE g[j - 1] + Pieces(c, k)[j - 1].len
  <2>1. g[j] = MoveAt(c, k, j)
    OBVIOUS
  <2>2. CASE j = 1
    BY <2>1, <2>2, <1>3 DEF MoveAt
  <2>3. CASE j # 1
    <3>1. j - 1 \in 1 .. MoveCount(c, k) /\ j - 1 # MoveCount(c, k) /\ j \in {2, 3}
      BY <1>1, <2>3
    <3>2. g[j - 1] = MoveAt(c, k, j - 1)
      BY <3>1
    <3>3. Pieces(c, k)[j - 1].len = IF j - 1 = 1 THEN LBA_SIZE - c.offset ELSE LBA_SIZE
      BY <1>2, <3>1
    <3>4. MoveAt(c, k, j) = MoveAt(c, k, j - 1) + IF j - 1 = 1 THEN LBA_SIZE - c.offset ELSE LBA_SIZE
      BY <1>1, <1>3, <3>1 DEF MoveAt
    <3> HIDE DEF g
    <3> QED
      BY <2>1, <2>3, <3>2, <3>3, <3>4
  <2> QED
    BY <2>2, <2>3
<1>5. Offsets(c, k, g)
  <2>1. g = [j \in 1 .. MoveCount(c, k) |-> g[j]]
    OBVIOUS
  <2> HIDE DEF g
  <2>2. [j \in 1 .. MoveCount(c, k) |-> g[j]]
          = [j \in 1 .. MoveCount(c, k) |-> IF j = 1 THEN Base(c, k) ELSE g[j - 1] + Pieces(c, k)[j - 1].len]
    BY <1>4
  <2> QED
    BY <2>1, <2>2, <1>1, Zenon DEF Offsets, Base
<1> DEFINE at == DdrOffset(c, k)
<1>6. at = CHOOSE h : Offsets(c, k, h)
  BY Zenon DEF DdrOffset, Offsets
<1>7. Offsets(c, k, at)
  BY <1>5, <1>6, Zenon
<1> HIDE DEF at, g
<1>8. \A j \in 1 .. MoveCount(c, k) :
        at[j] = IF j = 1 THEN Base(c, k) ELSE at[j - 1] + Pieces(c, k)[j - 1].len
  <2>1. at = [j \in 1 .. MoveCount(c, k) |->
                IF j = 1 THEN Base(c, k) ELSE at[j - 1] + Pieces(c, k)[j - 1].len]
    BY <1>1, <1>7, Zenon DEF Offsets, Base
  <2> QED
    BY <2>1, Zenon
<1>9. 1 \in 1 .. MoveCount(c, k) /\ at[1] = Base(c, k)
  BY <1>1, <1>8
<1>10. 2 <= MoveCount(c, k) => at[2] = Base(c, k) + (LBA_SIZE - c.offset)
  <2>1. SUFFICES ASSUME 2 <= MoveCount(c, k) PROVE at[2] = Base(c, k) + (LBA_SIZE - c.offset)
    OBVIOUS
  <2>2. 2 \in 1 .. MoveCount(c, k) /\ 1 # MoveCount(c, k) /\ 2 - 1 = 1
    BY <1>1, <2>1
  <2>3. Pieces(c, k)[1].len = LBA_SIZE - c.offset
    BY <1>2, <1>9, <2>2
  <2>4. at[2] = at[2 - 1] + Pieces(c, k)[2 - 1].len
    BY <1>8, <2>2
  <2> QED
    BY <2>2, <2>3, <2>4, <1>9
<1>11. 3 <= MoveCount(c, k) => at[3] = Base(c, k) + (LBA_SIZE - c.offset) + LBA_SIZE
  <2>1. SUFFICES ASSUME 3 <= MoveCount(c, k) PROVE at[3] = Base(c, k) + (LBA_SIZE - c.offset) + LBA_SIZE
    OBVIOUS
  <2>2. /\ 3 \in 1 .. MoveCount(c, k) /\ 2 \in 1 .. MoveCount(c, k) /\ 2 # MoveCount(c, k)
        /\ 3 - 1 = 2 /\ 2 <= MoveCount(c, k)
    BY <1>1, <2>1
  <2>3. Pieces(c, k)[2].len = LBA_SIZE
    BY <1>2, <2>2
  <2>4. at[3] = at[3 - 1] + Pieces(c, k)[3 - 1].len
    BY <1>8, <2>2
  <2> QED
    BY <2>2, <2>3, <2>4, <1>10
<1>12. i \in 1 .. 3 /\ i <= MoveCount(c, k)
  BY <1>1
<1>13. at[i] = MoveAt(c, k, i)
  <2>1. CASE i = 1
    BY <2>1, <1>3, <1>9 DEF MoveAt
  <2>2. CASE i = 2
    BY <2>2, <1>12, <1>10 DEF MoveAt
  <2>3. CASE i = 3
    <3>1. Base(c, k) + (LBA_SIZE - c.offset) + LBA_SIZE = Base(c, k) + (LBA_SIZE + LBA_SIZE - c.offset)
      BY <1>1, <1>3
    <3> QED
      BY <2>3, <1>12, <1>11, <3>1 DEF MoveAt
  <2> QED
    BY <1>12, <2>1, <2>2, <2>3
<1> QED
  BY <1>13 DEF at

Move(c, k, i) ==
  [page |-> StartIndex(c, k) + i, unit |-> MoveUnit(c, i), len |-> MoveLen(c, k, i), at |-> MoveAt(c, k, i)]

\* What the DMA does with each piece.
LEMMA MovesAre ==
  ASSUME NEW c, IsCommand(c), NEW k \in 1 .. SliceCount(c)
  PROVE  /\ Moves(c, k) \in Seq([page : Nat, unit : Nat, len : Nat, at : Nat])
         /\ Len(Moves(c, k)) = MoveCount(c, k)
         /\ \A i \in 1 .. MoveCount(c, k) : Moves(c, k)[i] = Move(c, k, i)
<1> DEFINE Set == [page : Nat, unit : Nat, len : Nat, at : Nat]
           n == MoveCount(c, k)
<1>1. n \in Nat /\ Len(Pieces(c, k)) = n
  BY SliceSizes, PiecesAre
<1>2. ASSUME NEW i \in 1 .. n
      PROVE  [page |-> Pieces(c, k)[i].page, unit |-> Pieces(c, k)[i].unit, len |-> Pieces(c, k)[i].len,
              at |-> DdrOffset(c, k)[i]] = Move(c, k, i)
  <2>1. Pieces(c, k)[i] = Piece(StartIndex(c, k) + i, MoveUnit(c, i), MoveLen(c, k, i))
    BY PiecesAre
  <2>2. DdrOffset(c, k)[i] = MoveAt(c, k, i)
    BY DdrOffsetIs
  <2> QED
    BY <2>1, <2>2 DEF Piece, Move
<1>3. ASSUME NEW i \in 1 .. n PROVE Move(c, k, i) \in Set
  <2>1. /\ StartIndex(c, k) \in Nat /\ c.offset \in 0 .. LBA_SIZE - 1 /\ LBA_SIZE \in Nat \ {0}
        /\ NvmeBlockOffset(c, k) \in {0, 1}
    BY SliceSizes
  <2>2. MoveUnit(c, i) \in Nat /\ MoveLen(c, k, i) \in Nat /\ MoveAt(c, k, i) \in Nat
    BY <2>1 DEF MoveUnit, MoveLen, MoveAt, Base
  <2>3. StartIndex(c, k) + i \in Nat
    BY <2>1
  <2> QED
    BY <2>2, <2>3 DEF Move
<1>4. Moves(c, k) = [i \in 1 .. n |-> Move(c, k, i)]
  <2>1. Moves(c, k) = [i \in 1 .. n |->
          [page |-> Pieces(c, k)[i].page, unit |-> Pieces(c, k)[i].unit, len |-> Pieces(c, k)[i].len,
           at |-> DdrOffset(c, k)[i]]]
    BY <1>1, Zenon DEF Moves
  <2> QED
    BY <1>2, <2>1, Zenon
<1> HIDE DEF n, Set
<1>5. Moves(c, k) \in Seq(Set) /\ Len(Moves(c, k)) = n /\ \A i \in 1 .. n : Moves(c, k)[i] = Move(c, k, i)
  BY <1>1, <1>3, <1>4
<1> QED
  BY <1>5 DEF n, Set

\* The pieces of a slice are its blocks in the entry, one after the other.
SliceEnd(c, k) == Base(c, k) + IF NumOfNvmeBlock(c, k) = 1 THEN LBA_SIZE ELSE LBA_SIZE + LBA_SIZE

\* They are in the entry, of a length, one after the other from end to end.
LEMMA MovesTile ==
  ASSUME NEW c, IsCommand(c), NEW k \in 1 .. SliceCount(c)
  PROVE  /\ \A i \in 1 .. MoveCount(c, k) :
              /\ MoveLen(c, k, i) > 0 /\ MoveUnit(c, i) + MoveLen(c, k, i) <= LBA_SIZE
              /\ Base(c, k) <= MoveAt(c, k, i) /\ MoveAt(c, k, i) + MoveLen(c, k, i) <= SliceEnd(c, k)
              /\ i > 1 => MoveAt(c, k, i) = MoveAt(c, k, i - 1) + MoveLen(c, k, i - 1)
         /\ MoveAt(c, k, 1) = Base(c, k)
         /\ MoveAt(c, k, MoveCount(c, k)) + MoveLen(c, k, MoveCount(c, k)) = SliceEnd(c, k)
         /\ \A u \in Base(c, k) .. SliceEnd(c, k) - 1 :
              \E i \in 1 .. MoveCount(c, k) :
                u \in MoveAt(c, k, i) .. MoveAt(c, k, i) + MoveLen(c, k, i) - 1
<1> DEFINE n == NumOfNvmeBlock(c, k)
           m == MoveCount(c, k)
           b == Base(c, k)
           off == c.offset
           at(i) == MoveAt(c, k, i)
           len(i) == MoveLen(c, k, i)
<1>1. n \in {1, 2} /\ off \in 0 .. LBA_SIZE - 1 /\ LBA_SIZE \in Nat \ {0} /\ b \in Nat
      /\ m \in 1 .. 3 /\ m = IF off = 0 THEN n ELSE n + 1
  BY SliceSizes DEF MoveCount, Base
<1>2. ASSUME NEW i \in 1 .. 3
      PROVE  /\ len(i) = IF i = 1 THEN LBA_SIZE - off ELSE IF i = n + 1 THEN off ELSE LBA_SIZE
             /\ at(i) = b + IF i = 1 THEN 0 ELSE IF i = 2 THEN LBA_SIZE - off ELSE LBA_SIZE + LBA_SIZE - off
             /\ MoveUnit(c, i) = IF i = 1 THEN off ELSE 0
  BY DEF MoveLen, MoveAt, MoveUnit
<1>3. SliceEnd(c, k) = b + IF n = 1 THEN LBA_SIZE ELSE LBA_SIZE + LBA_SIZE
  BY DEF SliceEnd
<1> HIDE DEF n, m, b, off, at, len
<1>4. ASSUME NEW i \in 1 .. m
      PROVE  /\ len(i) > 0 /\ MoveUnit(c, i) + len(i) <= LBA_SIZE
             /\ b <= at(i) /\ at(i) + len(i) <= SliceEnd(c, k)
  <2>1. i \in 1 .. 3 /\ i \in {1, 2, 3}
    BY <1>1
  <2> QED
    BY <2>1, <1>1, <1>2, <1>3
<1>5. ASSUME NEW i \in 1 .. m, i > 1 PROVE at(i) = at(i - 1) + len(i - 1)
  <2>1. i \in 1 .. 3 /\ i - 1 \in 1 .. 3 /\ i \in {2, 3} /\ i - 1 # n + 1
    BY <1>1, <1>5
  <2> QED
    BY <2>1, <1>1, <1>2
<1>6. at(1) = b
  <2>1. 1 \in 1 .. 3
    OBVIOUS
  <2> QED
    BY <1>1, <1>2, <2>1
<1>7. at(m) + len(m) = SliceEnd(c, k)
  <2>1. m = 1 \/ m = 2 \/ m = 3
    BY <1>1
  <2>2. CASE m = 1
    BY <2>2, <1>1, <1>2, <1>3
  <2>3. CASE m = 2
    BY <2>3, <1>1, <1>2, <1>3
  <2>4. CASE m = 3
    BY <2>4, <1>1, <1>2, <1>3
  <2> QED
    BY <2>1, <2>2, <2>3, <2>4
<1>8. ASSUME NEW u \in b .. SliceEnd(c, k) - 1
      PROVE  \E i \in 1 .. m : u \in at(i) .. at(i) + len(i) - 1
  <2>1. u \in Int /\ b <= u /\ u < SliceEnd(c, k)
    BY <1>1, <1>3
  <2>2. CASE u < b + (LBA_SIZE - off)
    <3>1. 1 \in 1 .. m /\ 1 \in 1 .. 3
      BY <1>1
    <3>2. at(1) = b /\ len(1) = LBA_SIZE - off
      BY <1>1, <1>2, <3>1
    <3> QED
      BY <2>1, <2>2, <3>1, <3>2, <1>1
  <2>3. CASE u >= b + (LBA_SIZE - off) /\ u < b + (LBA_SIZE - off) + len(2)
    <3>1. 2 \in 1 .. m /\ 2 \in 1 .. 3
      BY <1>1, <1>3, <2>1, <2>3
    <3>2. at(2) = b + (LBA_SIZE - off) /\ len(2) \in Int
      BY <1>1, <1>2, <3>1
    <3> QED
      BY <2>1, <2>3, <3>1, <3>2, <1>1
  <2>4. CASE u >= b + (LBA_SIZE - off) + len(2)
    <3>1. 2 \in 1 .. 3 /\ len(2) = IF n = 1 THEN off ELSE LBA_SIZE
      BY <1>1, <1>2
    <3>2. n = 2 /\ off # 0
      BY <3>1, <1>1, <1>3, <2>1, <2>4
    <3>3. 3 \in 1 .. m /\ 3 \in 1 .. 3
      BY <1>1, <3>2
    <3>4. at(3) = b + (LBA_SIZE + LBA_SIZE - off) /\ len(3) = off
      BY <1>1, <1>2, <3>2, <3>3
    <3>5. SliceEnd(c, k) = b + (LBA_SIZE + LBA_SIZE)
      BY <1>3, <3>2
    <3>6. u \in at(3) .. at(3) + len(3) - 1
      BY <2>1, <2>4, <3>1, <3>2, <3>4, <3>5, <1>1
    <3> QED
      BY <3>3, <3>6
  <2>5. len(2) \in Int
    <3>1. 2 \in 1 .. 3
      OBVIOUS
    <3> QED
      BY <3>1, <1>1, <1>2
  <2> QED
    BY <2>1, <2>2, <2>3, <2>4, <2>5, <1>1
<1> QED
  BY <1>4, <1>5, <1>6, <1>7, <1>8 DEF m, b, at, len
=============================================================================
