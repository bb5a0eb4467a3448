-------------------------- MODULE BlockDevice_proofs --------------------------
(***************************************************************************)
(* The device, for any number of entries, slices, pages, slots and         *)
(* commands of any length.                                                 *)
(*                                                                         *)
(* First the directory of the data buffer, and the types.  What is in the  *)
(* slice queue and in hand are the last slices of the command in hand, and *)
(* that the pieces tile its buffer follows.                                *)
(*                                                                         *)
(* Second, completions: of the requests that will post one, no two are of  *)
(* the same command.                                                       *)
(*                                                                         *)
(* Third, the data.  The invariant says what every entry and every page    *)
(* will hold when the requests already made have run, in whatever order    *)
(* they end: of an entry and a page that hold the same slice the entry is  *)
(* the newer one, and the one that counts is what the disk is, but for     *)
(* what the slices not yet taken up will write.                            *)
(***************************************************************************)
EXTENDS BlockDevice, NvmeSlice_proofs

-----------------------------------------------------------------------------
\* Lists without repetition.

\* What is left of a sequence without one of its elements.
After(i, p) == IF i < p THEN i ELSE i + 1

\* RemoveAt.
LEMMA RemoveAtIs ==
  ASSUME NEW S, NEW s \in Seq(S), NEW p \in 1 .. Len(s)
  PROVE  /\ RemoveAt(s, p) \in Seq(S) /\ Len(RemoveAt(s, p)) = Len(s) - 1
         /\ \A i \in 1 .. Len(s) - 1 : RemoveAt(s, p)[i] = s[After(i, p)]
<1> DEFINE a == SubSeq(s, 1, p - 1)
           b == SubSeq(s, p + 1, Len(s))
<1>1. Len(s) \in Nat /\ p \in Nat /\ 1 <= p /\ p <= Len(s)
  OBVIOUS
<1>2. /\ a \in Seq(S) /\ Len(a) = p - 1
      /\ \A i \in 1 .. p - 1 : a[i] = s[i]
  OBVIOUS
<1>3. /\ b \in Seq(S) /\ Len(b) = Len(s) - p
      /\ \A i \in 1 .. Len(s) - p : b[i] = s[p + i]
  OBVIOUS
<1>4. RemoveAt(s, p) = a \o b
  BY DEF RemoveAt
<1> HIDE DEF a, b
<1>5. a \o b \in Seq(S) /\ Len(a \o b) = Len(s) - 1
  <2>1. a \o b \in Seq(S) /\ Len(a \o b) = Len(a) + Len(b)
    BY <1>2, <1>3, ConcatProperties
  <2> QED
    BY <1>1, <1>2, <1>3, <2>1
<1>6. ASSUME NEW i \in 1 .. Len(s) - 1 PROVE (a \o b)[i] = s[After(i, p)]
  <2>1. i \in 1 .. Len(a) + Len(b)
    BY <1>1, <1>2, <1>3
  <2>2. (a \o b)[i] = IF i <= Len(a) THEN a[i] ELSE b[i - Len(a)]
    BY <2>1, <1>2, <1>3, ConcatProperties
  <2>3. CASE i < p
    <3>1. i \in 1 .. p - 1 /\ i <= Len(a)
      BY <2>3, <1>1, <1>2
    <3> QED
      BY <2>2, <2>3, <3>1, <1>2 DEF After
  <2>4. CASE ~ (i < p)
    <3>1. ~ (i <= Len(a)) /\ i - (p - 1) \in 1 .. Len(s) - p /\ p + (i - (p - 1)) = i + 1
      BY <2>4, <1>1, <1>2
    <3> QED
      BY <2>2, <2>4, <3>1, <1>2, <1>3 DEF After
  <2> QED
    BY <2>3, <2>4
<1> QED
  BY <1>4, <1>5, <1>6

\* RemoveFirst takes out one element at most.
LEMMA RemoveFirstIs ==
  ASSUME NEW S, NEW s \in Seq(S), NEW e, \E i \in 1 .. Len(s) : s[i] = e
  PROVE  \E p \in 1 .. Len(s) : s[p] = e /\ RemoveFirst(s, e) = RemoveAt(s, p)
<1> DEFINE I == {i \in 1 .. Len(s) : s[i] = e}
<1>1. I # {} /\ I \in SUBSET Nat
  OBVIOUS
<1>2. RemoveFirst(s, e) = RemoveAt(s, Min(I))
  BY <1>1 DEF RemoveFirst, SelectInSeq
<1> HIDE DEF I
<1>3. PICK m \in I : \A n \in I : m <= n
  BY <1>1, LeastNumber
<1>4. Min(I) \in I
  BY <1>3 DEF Min
<1> QED
  BY <1>2, <1>4 DEF I

\* Of a list without repetition it takes e out, and nothing else.
LEMMA RemoveFirstKeeps ==
  ASSUME NEW S, NEW s \in Seq(S), NEW e, IsInjective(s)
  PROVE  /\ RemoveFirst(s, e) \in Seq(S) /\ IsInjective(RemoveFirst(s, e))
         /\ ToSet(RemoveFirst(s, e)) = ToSet(s) \ {e}
<1>1. CASE ~ \E i \in 1 .. Len(s) : s[i] = e
  <2>1. RemoveFirst(s, e) = s
    BY <1>1 DEF RemoveFirst
  <2>2. e \notin ToSet(s)
    BY <1>1 DEF ToSet
  <2> QED
    BY <2>1, <2>2
<1>2. CASE \E i \in 1 .. Len(s) : s[i] = e
  <2>1. PICK p \in 1 .. Len(s) : s[p] = e /\ RemoveFirst(s, e) = RemoveAt(s, p)
    BY <1>2, RemoveFirstIs
  <2> DEFINE t == RemoveAt(s, p)
  <2>2. /\ t \in Seq(S) /\ Len(t) = Len(s) - 1
        /\ \A i \in 1 .. Len(s) - 1 : t[i] = s[After(i, p)]
    BY RemoveAtIs
  <2> HIDE DEF t
  <2>3. DOMAIN t = 1 .. Len(s) - 1 /\ DOMAIN s = 1 .. Len(s) /\ Len(s) \in Nat
    BY <2>2
  <2>4. \A a, b \in DOMAIN s : s[a] = s[b] => a = b
    BY DEF IsInjective
  <2>5. \A i \in 1 .. Len(s) - 1 : After(i, p) \in 1 .. Len(s) /\ After(i, p) # p
    BY <2>3 DEF After
  <2>6. \A i, j \in 1 .. Len(s) - 1 : After(i, p) = After(j, p) => i = j
    BY <2>3 DEF After
  <2>7. IsInjective(t)
    <3>1. SUFFICES ASSUME NEW i \in 1 .. Len(s) - 1, NEW j \in 1 .. Len(s) - 1, t[i] = t[j]
                   PROVE  i = j
      BY <2>3 DEF IsInjective
    <3>2. s[After(i, p)] = s[After(j, p)]
      BY <2>2, <3>1
    <3>3. After(i, p) \in DOMAIN s /\ After(j, p) \in DOMAIN s
      BY <2>3, <2>5
    <3>4. After(i, p) = After(j, p)
      BY <2>4, <3>2, <3>3, Zenon
    <3> QED
      BY <2>6, <3>4, Zenon
  <2>8. \A x \in 1 .. Len(s) : x # p => \E i \in 1 .. Len(s) - 1 : After(i, p) = x
    <3>1. SUFFICES ASSUME NEW x \in 1 .. Len(s), x # p
                   PROVE  \E i \in 1 .. Len(s) - 1 : After(i, p) = x
      OBVIOUS
    <3>2. CASE x < p
      <4>1. x \in 1 .. Len(s) - 1 /\ After(x, p) = x
        BY <3>2, <2>3 DEF After
      <4> QED
        BY <4>1
    <3>3. CASE x > p
      <4>1. x - 1 \in 1 .. Len(s) - 1 /\ After(x - 1, p) = x
        BY <3>3, <2>3 DEF After
      <4> QED
        BY <4>1
    <3> QED
      BY <3>1, <3>2, <3>3, <2>3
  <2>9. ToSet(t) = ToSet(s) \ {e}
    <3>1. ToSet(t) = {t[i] : i \in 1 .. Len(s) - 1} /\ ToSet(s) = {s[i] : i \in 1 .. Len(s)}
      BY <2>3 DEF ToSet
    <3>2. ASSUME NEW x \in ToSet(t) PROVE x \in ToSet(s) \ {e}
      <4>1. PICK i \in 1 .. Len(s) - 1 : x = t[i]
        BY <3>1
      <4> QED
        BY <4>1, <3>1, <2>1, <2>2, <2>3, <2>4, <2>5
    <3>3. ASSUME NEW x \in ToSet(s) \ {e} PROVE x \in ToSet(t)
      <4>1. PICK j \in 1 .. Len(s) : x = s[j]
        BY <3>1
      <4>2. j # p
        BY <2>1, <4>1
      <4> QED
        BY <4>1, <4>2, <3>1, <2>2, <2>8
    <3> QED
      BY <3>2, <3>3
  <2> QED
    BY <2>1, <2>2, <2>7, <2>9 DEF t
<1> QED
  BY <1>1, <1>2

\* An element at the head, or at the end, of a list that does not have it.
LEMMA ConsKeeps ==
  ASSUME NEW S, NEW s \in Seq(S), NEW e \in S, IsInjective(s), e \notin ToSet(s)
  PROVE  /\ <<e>> \o s \in Seq(S) /\ IsInjective(<<e>> \o s) /\ ToSet(<<e>> \o s) = ToSet(s) \cup {e}
<1> DEFINE t == <<e>> \o s
<1>1. /\ t \in Seq(S) /\ Len(t) = Len(s) + 1 /\ Len(s) \in Nat
      /\ t[1] = e /\ \A i \in 1 .. Len(s) : t[i + 1] = s[i]
  OBVIOUS
<1> HIDE DEF t
<1>2. DOMAIN t = 1 .. Len(s) + 1 /\ DOMAIN s = 1 .. Len(s)
  BY <1>1
<1>3. \A i \in 1 .. Len(s) + 1 : i = 1 \/ (i - 1 \in 1 .. Len(s) /\ t[i] = s[i - 1])
  <2>1. SUFFICES ASSUME NEW i \in 1 .. Len(s) + 1, i # 1 PROVE i - 1 \in 1 .. Len(s) /\ t[i] = s[i - 1]
    OBVIOUS
  <2>2. i - 1 \in 1 .. Len(s) /\ (i - 1) + 1 = i
    BY <1>1, <2>1
  <2> QED
    BY <1>1, <2>2
<1>4. \A i \in 1 .. Len(s) : s[i] # e /\ s[i] \in ToSet(s)
  BY <1>2 DEF ToSet
<1>5. IsInjective(t)
  <2>1. ASSUME NEW i \in 1 .. Len(s) + 1, NEW j \in 1 .. Len(s) + 1, t[i] = t[j] PROVE i = j
    <3>1. CASE i = 1
      BY <3>1, <2>1, <1>1, <1>3, <1>4
    <3>2. CASE j = 1
      BY <3>2, <2>1, <1>1, <1>3, <1>4
    <3>3. CASE i # 1 /\ j # 1
      <4>1. i - 1 \in 1 .. Len(s) /\ j - 1 \in 1 .. Len(s) /\ s[i - 1] = s[j - 1]
        BY <3>3, <2>1, <1>3
      <4>2. i - 1 = j - 1
        BY <4>1, <1>2 DEF IsInjective
      <4> QED
        BY <4>2
    <3> QED
      BY <3>1, <3>2, <3>3
  <2> QED
    BY <2>1, <1>2 DEF IsInjective
<1>6. ToSet(t) = ToSet(s) \cup {e}
  <2>1. ToSet(t) = {t[i] : i \in 1 .. Len(s) + 1} /\ ToSet(s) = {s[i] : i \in 1 .. Len(s)}
    BY <1>2 DEF ToSet
  <2>2. ASSUME NEW x \in ToSet(t) PROVE x \in ToSet(s) \cup {e}
    BY <2>1, <1>1, <1>3
  <2>3. ASSUME NEW x \in ToSet(s) PROVE x \in ToSet(t)
    <3>1. PICK i \in 1 .. Len(s) : x = s[i]
      BY <2>1
    <3>2. i + 1 \in 1 .. Len(s) + 1 /\ t[i + 1] = x
      BY <1>1, <3>1
    <3> QED
      BY <2>1, <3>2
  <2>4. e \in ToSet(t)
    <3>1. 1 \in 1 .. Len(s) + 1
      BY <1>1
    <3> QED
      BY <2>1, <3>1, <1>1
  <2> QED
    BY <2>2, <2>3, <2>4
<1> QED
  BY <1>1, <1>5, <1>6 DEF t

LEMMA AppendKeeps ==
  ASSUME NEW S, NEW s \in Seq(S), NEW e \in S, IsInjective(s), e \notin ToSet(s)
  PROVE  /\ Append(s, e) \in Seq(S) /\ IsInjective(Append(s, e)) /\ ToSet(Append(s, e)) = ToSet(s) \cup {e}
<1> DEFINE t == Append(s, e)
           n == Len(s)
<1>1. /\ t \in Seq(S) /\ Len(t) = n + 1 /\ n \in Nat
      /\ t[n + 1] = e /\ \A i \in 1 .. n : t[i] = s[i]
  OBVIOUS
<1>2. DOMAIN s = 1 .. n
  OBVIOUS
<1> HIDE DEF t, n
<1>3. DOMAIN t = 1 .. n + 1
  BY <1>1
<1>4. \A i \in 1 .. n : s[i] # e
  BY <1>2 DEF ToSet
<1>5. \A i \in 1 .. n + 1 : i \in 1 .. n \/ i = n + 1
  BY <1>1
<1>6. IsInjective(t)
  BY <1>1, <1>2, <1>3, <1>4, <1>5 DEF IsInjective
<1>7. ToSet(t) = ToSet(s) \cup {e}
  <2>1. ToSet(t) = {t[i] : i \in 1 .. n + 1} /\ ToSet(s) = {s[i] : i \in 1 .. n}
    BY <1>2, <1>3 DEF ToSet
  <2>2. \A i \in 1 .. n : i \in 1 .. n + 1
    BY <1>1
  <2>3. n + 1 \in 1 .. n + 1
    BY <1>1
  <2> QED
    BY <2>1, <2>2, <2>3, <1>1, <1>5
<1> QED
  BY <1>1, <1>6, <1>7 DEF t

\* The directory as CheckDataBufHit and Reuse leave it.
LEMMA FoundIs ==
  ASSUME DataBufTypeOK, ListsAgree, NEW lsa \in Nat
  PROVE  \A e \in Entry : e \in Found(lsa) <=> lsaOf[e] = lsa
<1>1. FindDataBufHashTableEntry(lsa) \in Entry
  BY EntryCountAssumption DEF FindDataBufHashTableEntry, Entry
<1>2. lsa # LSA_NONE
  BY DEF LSA_NONE
<1>3. ASSUME NEW e \in Entry, e \in Found(lsa) PROVE lsaOf[e] = lsa
  BY <1>3 DEF Found
<1>4. ASSUME NEW e \in Entry, lsaOf[e] = lsa PROVE e \in Found(lsa)
  <2> DEFINE list == Listed(lsa)
  <2>1. list = hash[FindDataBufHashTableEntry(lsa)]
    BY DEF Listed
  <2>2. Holds(e) /\ FindDataBufHashTableEntry(lsaOf[e]) = FindDataBufHashTableEntry(lsa)
    BY <1>2, <1>4 DEF Holds
  <2>3. /\ ToSet(list) = {x \in Entry : Holds(x) /\ FindDataBufHashTableEntry(lsaOf[x]) = FindDataBufHashTableEntry(lsa)}
        /\ IsInjective(list) /\ list \in Seq(Entry)
    BY <1>1, <2>1 DEF ListsAgree, DataBufTypeOK
  <2> HIDE DEF list
  <2>4. e \in ToSet(list)
    BY <2>2, <2>3
  <2>5. PICK i \in DOMAIN list : list[i] = e
    BY <2>4 DEF ToSet
  <2>6. ASSUME NEW j \in 1 .. i - 1 PROVE lsaOf[list[j]] # lsa
    <3>1. i \in 1 .. Len(list) /\ j \in DOMAIN list /\ j # i
      BY <2>3, <2>5
    <3>2. list[j] \in Entry /\ list[j] # e
      BY <3>1, <2>3, <2>5 DEF IsInjective
    <3> QED
      <4>1. Holds(e) /\ lsaOf[e] = lsaOf[list[j]] => e = list[j]
        BY <3>2 DEF ListsAgree
      <4> QED
        BY <4>1, <3>2, <2>2, <1>4
  <2> QED
    BY <2>5, <2>6, <1>4 DEF Found, list
<1> QED
  BY <1>3, <1>4

\* The LRU list, whichever entry is used.
LEMMA UsedKeeps ==
  ASSUME DataBufTypeOK, ListsAgree, NEW e \in Entry
  PROVE  Used(e) \in Seq(Entry) /\ ToSet(Used(e)) = Entry /\ IsInjective(Used(e))
<1> DEFINE rest == RemoveFirst(lru, e)
<1>1. lru \in Seq(Entry) /\ IsInjective(lru) /\ ToSet(lru) = Entry
  BY DEF DataBufTypeOK, ListsAgree
<1>2. rest \in Seq(Entry) /\ IsInjective(rest) /\ ToSet(rest) = Entry \ {e}
  BY <1>1, RemoveFirstKeeps
<1> HIDE DEF rest
<1>3. e \notin ToSet(rest)
  BY <1>2
<1>4. <<e>> \o rest \in Seq(Entry) /\ IsInjective(<<e>> \o rest) /\ ToSet(<<e>> \o rest) = ToSet(rest) \cup {e}
  BY <1>2, <1>3, ConsKeeps
<1> QED
  BY <1>2, <1>4 DEF Used, rest

\* AllocateDataBuf finds an entry.
LEMMA VictimIsEntry ==
  ASSUME DataBufTypeOK, ListsAgree
  PROVE  Victim \in Entry
<1>1. lru \in Seq(Entry) /\ ToSet(lru) = Entry
  BY DEF DataBufTypeOK, ListsAgree
<1>2. 0 \in Entry
  BY EntryCountAssumption DEF Entry
<1>3. DOMAIN lru = 1 .. Len(lru) /\ Len(lru) \in Nat
  BY <1>1
<1>4. PICK i \in 1 .. Len(lru) : lru[i] = 0
  BY <1>1, <1>2, <1>3 DEF ToSet
<1>5. Len(lru) \in 1 .. Len(lru)
  BY <1>3, <1>4
<1> QED
  BY <1>1, <1>5 DEF Victim, Last

\* The directory that InitDataBuf makes.
LEMMA InitDirectory ==
  ASSUME InitDataBuf
  PROVE  DataBufTypeOK /\ ListsAgree
<1>1. N \in Nat \ {0}
  BY EntryCountAssumption
<1>2. DataBufTypeOK
  <2>1. lru \in Seq(Entry)
    BY <1>1 DEF InitDataBuf, Entry
  <2>2. <<>> \in Seq(Entry)
    OBVIOUS
  <2> QED
    BY <2>1, <2>2 DEF InitDataBuf, DataBufTypeOK
<1>3. ToSet(lru) = Entry /\ IsInjective(lru)
  <2>1. DOMAIN lru = 1 .. N /\ \A i \in 1 .. N : lru[i] = i - 1
    BY DEF InitDataBuf
  <2>2. IsInjective(lru)
    BY <1>1, <2>1 DEF IsInjective
  <2>3. ToSet(lru) = {i - 1 : i \in 1 .. N}
    BY <2>1 DEF ToSet
  <2>4. ASSUME NEW e \in 0 .. N - 1 PROVE e + 1 \in 1 .. N /\ (e + 1) - 1 = e
    BY <1>1
  <2>5. \A i \in 1 .. N : i - 1 \in 0 .. N - 1
    BY <1>1
  <2> QED
    BY <2>2, <2>3, <2>4, <2>5 DEF Entry
<1>4. ASSUME NEW e \in Entry PROVE ~ Holds(e)
  BY DEF InitDataBuf, Holds
<1>5. ASSUME NEW h \in Entry PROVE ToSet(hash[h]) = {} /\ IsInjective(hash[h])
  <2>1. hash[h] = <<>>
    BY DEF InitDataBuf
  <2> QED
    BY <2>1 DEF ToSet, IsInjective
<1>6. ASSUME NEW h \in Entry
      PROVE  ToSet(hash[h]) = {e \in Entry : Holds(e) /\ FindDataBufHashTableEntry(lsaOf[e]) = h}
  BY <1>4, <1>5
<1> QED
  BY <1>2, <1>3, <1>4, <1>5, <1>6 DEF ListsAgree

\* Nothing but a use moves an entry on the LRU list.
LEMMA HitKeepsDirectory ==
  ASSUME DataBufTypeOK, ListsAgree, NEW lsa, NEW e \in Entry, CheckDataBufHit(lsa, e)
  PROVE  DataBufTypeOK' /\ ListsAgree'
<1>1. lru' = Used(e) /\ lsaOf' = lsaOf /\ dirty' = dirty /\ hash' = hash
  BY DEF CheckDataBufHit
<1>2. lru' \in Seq(Entry) /\ ToSet(lru') = Entry /\ IsInjective(lru')
  BY <1>1, UsedKeeps
<1>3. DataBufTypeOK'
  BY <1>1, <1>2 DEF DataBufTypeOK
<1>4. \A x \in Entry : Holds(x)' = Holds(x)
  BY <1>1 DEF Holds
<1> QED
  BY <1>1, <1>2, <1>3, <1>4 DEF ListsAgree

\* A change of the dirty flags leaves it alone.
LEMMA SameDirectory ==
  ASSUME DataBufTypeOK, ListsAgree, UNCHANGED <<lsaOf, lru, hash>>, dirty' \in [Entry -> BOOLEAN]
  PROVE  DataBufTypeOK' /\ ListsAgree'
<1>1. lru' = lru /\ lsaOf' = lsaOf /\ hash' = hash
  OBVIOUS
<1>2. DataBufTypeOK'
  BY <1>1 DEF DataBufTypeOK
<1>3. \A x \in Entry : Holds(x)' = Holds(x)
  BY <1>1 DEF Holds
<1> QED
  BY <1>1, <1>2, <1>3 DEF ListsAgree

\* The hash lists without e.
LEMMA SelectiveGetIs ==
  ASSUME DataBufTypeOK, ListsAgree, NEW e \in Entry, NEW lsa
  PROVE  LET lists == SelectiveGet(e, lsa)
         IN  /\ lists \in [Entry -> Seq(Entry)]
             /\ \A h \in Entry :
                  /\ IsInjective(lists[h])
                  /\ ToSet(lists[h])
                       = {x \in Entry \ {e} : Holds(x) /\ FindDataBufHashTableEntry(lsaOf[x]) = h}
<1> DEFINE lists == SelectiveGet(e, lsa)
           On(h) == {x \in Entry : Holds(x) /\ FindDataBufHashTableEntry(lsaOf[x]) = h}
           Left(h) == {x \in Entry \ {e} : Holds(x) /\ FindDataBufHashTableEntry(lsaOf[x]) = h}
<1>1. hash \in [Entry -> Seq(Entry)] /\ \A h \in Entry : ToSet(hash[h]) = On(h) /\ IsInjective(hash[h])
  BY DEF DataBufTypeOK, ListsAgree
<1>2. \A h \in Entry : ~ e \in On(h) => On(h) = Left(h)
  OBVIOUS
<1>3. \A h \in Entry : On(h) \ {e} = Left(h)
  OBVIOUS
<1>4. CASE ~ Holds(e)
  <2>1. lists = hash /\ \A h \in Entry : e \notin On(h)
    BY <1>4 DEF SelectiveGet, Holds
  <2> HIDE DEF lists, On, Left
  <2>2. /\ lists \in [Entry -> Seq(Entry)]
        /\ \A h \in Entry : IsInjective(lists[h]) /\ ToSet(lists[h]) = Left(h)
    BY <1>1, <1>2, <2>1
  <2> QED
    BY <2>2, Zenon DEF lists, Left
<1>5. CASE Holds(e)
  <2> DEFINE g == FindDataBufHashTableEntry(lsaOf[e])
  <2>1. lists = [hash EXCEPT ![g] = RemoveFirst(hash[g], e)]
    BY <1>5 DEF SelectiveGet, Holds
  <2>2. g \in Entry
    <3>1. lsaOf[e] \in Nat
      BY <1>5 DEF DataBufTypeOK, Holds
    <3> QED
      BY <3>1, EntryCountAssumption DEF FindDataBufHashTableEntry, Entry
  <2>3. \A h \in Entry : h # g => e \notin On(h)
    OBVIOUS
  <2> HIDE DEF lists, On, Left, g
  <2>4. /\ RemoveFirst(hash[g], e) \in Seq(Entry) /\ IsInjective(RemoveFirst(hash[g], e))
        /\ ToSet(RemoveFirst(hash[g], e)) = Left(g)
    <3>1. hash[g] \in Seq(Entry) /\ IsInjective(hash[g]) /\ ToSet(hash[g]) = On(g)
      BY <1>1, <2>2
    <3>2. ToSet(RemoveFirst(hash[g], e)) = On(g) \ {e}
      BY <3>1, RemoveFirstKeeps
    <3>3. On(g) \ {e} = Left(g)
      BY <1>3, <2>2
    <3> QED
      BY <3>1, <3>2, <3>3, RemoveFirstKeeps
  <2>5. /\ lists \in [Entry -> Seq(Entry)]
        /\ \A h \in Entry : lists[h] = IF h = g THEN RemoveFirst(hash[g], e) ELSE hash[h]
    BY <1>1, <2>1, <2>2, <2>4
  <2>6. \A h \in Entry : IsInjective(lists[h]) /\ ToSet(lists[h]) = Left(h)
    BY <1>1, <1>2, <2>3, <2>4, <2>5
  <2> QED
    BY <2>5, <2>6, Zenon DEF lists, Left
<1> QED
  BY <1>4, <1>5

\* An entry that changes its slice: the lists agree when it is taken out of the old
\* list first.
LEMMA ReuseKeepsDirectory ==
  ASSUME DataBufTypeOK, ListsAgree, NEW lsa \in Nat, NEW e, Reuse(e, lsa)
  PROVE  DataBufTypeOK' /\ ListsAgree'
<1> DEFINE lists == SelectiveGet(e, lsa)
           g == FindDataBufHashTableEntry(lsa)
           Left(h) == {x \in Entry \ {e} : Holds(x) /\ FindDataBufHashTableEntry(lsaOf[x]) = h}
           On(h) == {x \in Entry : Holds(x)' /\ FindDataBufHashTableEntry(lsaOf'[x]) = h}
<1>1. e \in Entry
  BY VictimIsEntry DEF Reuse
<1>2. /\ lru' = Used(e) /\ hash' = [lists EXCEPT ![g] = Append(lists[g], e)]
      /\ lsaOf' = [lsaOf EXCEPT ![e] = lsa] /\ dirty' = [dirty EXCEPT ![e] = FALSE]
  BY DEF Reuse, Put
<1>3. g \in Entry
  BY EntryCountAssumption DEF FindDataBufHashTableEntry, Entry
<1>4. /\ lists \in [Entry -> Seq(Entry)]
      /\ \A h \in Entry : IsInjective(lists[h]) /\ ToSet(lists[h]) = Left(h)
  BY <1>1, SelectiveGetIs
<1>5. lsaOf \in [Entry -> Nat \cup {LSA_NONE}] /\ dirty \in [Entry -> BOOLEAN]
  BY DEF DataBufTypeOK
<1>6. lsa # LSA_NONE
  BY DEF LSA_NONE
<1>7. \A x \in Entry : lsaOf'[x] = IF x = e THEN lsa ELSE lsaOf[x]
  BY <1>1, <1>2, <1>5
<1>8. \A x \in Entry : Holds(x)' <=> x = e \/ Holds(x)
  BY <1>6, <1>7 DEF Holds
<1>9. \A h \in Entry : On(h) = Left(h) \cup IF h = g THEN {e} ELSE {}
  BY <1>1, <1>7, <1>8
<1>10. \A h \in Entry : e \notin Left(h)
  OBVIOUS
<1>11. \A x \in Entry : lsaOf[x] # lsa
  BY FoundIs DEF Reuse
<1> HIDE DEF lists, g, Left, On
<1>12. /\ Append(lists[g], e) \in Seq(Entry) /\ IsInjective(Append(lists[g], e))
       /\ ToSet(Append(lists[g], e)) = Left(g) \cup {e}
  BY <1>1, <1>3, <1>4, <1>10, AppendKeeps
<1>13. /\ hash' \in [Entry -> Seq(Entry)]
       /\ \A h \in Entry : hash'[h] = IF h = g THEN Append(lists[g], e) ELSE lists[h]
  BY <1>2, <1>3, <1>4, <1>12
<1>14. \A h \in Entry : ToSet(hash'[h]) = On(h) /\ IsInjective(hash'[h])
  BY <1>4, <1>9, <1>12, <1>13
<1>15. lru' \in Seq(Entry) /\ ToSet(lru') = Entry /\ IsInjective(lru')
  BY <1>1, <1>2, UsedKeeps
<1>16. DataBufTypeOK'
  BY <1>1, <1>2, <1>5, <1>13, <1>15 DEF DataBufTypeOK
<1>17. \A x, y \in Entry : Holds(x)' /\ lsaOf'[x] = lsaOf'[y] => x = y
  <2>1. \A x, y \in Entry : Holds(x) /\ lsaOf[x] = lsaOf[y] => x = y
    BY DEF ListsAgree
  <2> QED
    BY <2>1, <1>7, <1>8, <1>11
<1> QED
  BY <1>14, <1>15, <1>16, <1>17, Zenon DEF ListsAgree, On

-----------------------------------------------------------------------------
\* What the queues hold.

Content == [Units -> Val \cup {NONE}]
Commands == HostCommands \cup WideCommands

\* The blocks of slice k of command c on the disk.
Expected(c, k) ==
  [i \in 1 .. NumOfNvmeBlock(c, k) |->
     disk[LogicalSliceAddr(c, k) * NVME_BLOCKS_PER_SLICE + NvmeBlockOffset(c, k) + i - 1]]

\* r is about slice k of command c.
OfSlice(r, c, k) ==
  /\ r.id = c.id /\ r.val = c.val /\ r.cqEn = CqEn(c, k)
  /\ r.lsa = LogicalSliceAddr(c, k) /\ r.num = NumOfNvmeBlock(c, k)
  /\ r.moves = Moves(c, k) /\ r.page = NoPage

IsSliceReq(r, c, k) ==
  /\ OfSlice(r, c, k) /\ r.code = c.op /\ r.got = <<>>
  /\ c.op = "READ" => r.expect = Expected(c, k)

Busy == pc \in {"find", "fetch", "dma"}

\* The slices of the command in hand that are left to do are its last ones.
QueueOK ==
  /\ pc = "idle" => sliceReqQ = <<>>
  /\ pc # "idle" =>
       /\ cmd \in Commands
       /\ Len(sliceReqQ) <= SliceCount(cmd)
       /\ \A j \in 1 .. Len(sliceReqQ) :
            IsSliceReq(sliceReqQ[j], cmd, SliceCount(cmd) - Len(sliceReqQ) + j)
       /\ cmd.op = "WRITE" => \A b \in cmd.lba .. cmd.lba + cmd.nlb : disk[b] = cmd.val
  /\ req # NoReq <=> Busy
  /\ Busy => /\ Len(sliceReqQ) < SliceCount(cmd)
             /\ IsSliceReq(req, cmd, SliceCount(cmd) - Len(sliceReqQ))
  /\ pc \in {"fetch", "dma"} => lsaOf[entry] = req.lsa
  /\ pc = "fetch" => ~ dirty[entry]

IsNandReq(r) == r.code \in {"PROGRAM", "FETCH"} /\ r.page \in Pages /\ r.cqEn = FALSE
IsDmaReq(r) ==
  \E c \in Commands : \E k \in 1 .. SliceCount(c) :
    OfSlice(r, c, k) /\ r.code = IF c.op = "WRITE" THEN "RxDMA" ELSE "TxDMA"

IsReq(r) ==
  /\ r = [code |-> r.code, id |-> r.id, val |-> r.val, cqEn |-> r.cqEn, lsa |-> r.lsa, num |-> r.num,
          moves |-> r.moves, expect |-> r.expect, entry |-> r.entry, page |-> r.page, got |-> r.got]
  /\ r.code \in Codes
IsSeq(s) == s \in Seq(ToSet(s))

DirectoryOK ==
  /\ \A e \in Entry : lsaOf[e] \in LSAs \cup {LSA_NONE}
  /\ \A e \in Entry : dirty[e] => Holds(e)

\* A request of the lower layer.
LowReq(r) ==
  /\ IsReq(r) /\ r.entry \in Entry
  /\ r.code # "TxDMA" => r.got = <<>>
  /\ IsNandReq(r) \/ IsDmaReq(r)

LowReqsOK ==
  /\ IsSeq(lowReqs) /\ IsSeq(sliceReqQ)
  /\ \A j \in 1 .. Len(sliceReqQ) : IsReq(sliceReqQ[j])
  /\ req # NoReq => IsReq(req)
  /\ \A i \in 1 .. Len(lowReqs) : LowReq(lowReqs[i])

-----------------------------------------------------------------------------
\* The next request of the same entry.
Adjacent(i, j) ==
  /\ i < j /\ lowReqs[i].entry = lowReqs[j].entry
  /\ \A m \in i + 1 .. j - 1 : lowReqs[m].entry # lowReqs[i].entry
LastOf(i) == \A m \in i + 1 .. Len(lowReqs) : lowReqs[m].entry # lowReqs[i].entry

Touches(r, u) == \E i \in DOMAIN r.moves : u \in Moved(r.moves[i])
Pend(l, u) ==
  \/ \E j \in 1 .. Len(sliceReqQ) : sliceReqQ[j].code = "WRITE" /\ sliceReqQ[j].lsa = l /\ Touches(sliceReqQ[j], u)
  \/ req # NoReq /\ req.code = "WRITE" /\ req.lsa = l /\ Touches(req, u)

CurOK(x, l) == \A u \in Units : Pend(l, u) \/ Agrees(x[u], Slice(l)[u])

ReadOK(r, x) ==
  r.code = "TxDMA" =>
    /\ r.got = <<>> \/ r.got = Got(r, x)
    /\ \A m \in DOMAIN r.moves : \A u \in Moved(r.moves[m]) :
         Agrees(x[u], r.expect[(u - r.moves[1].at) \div LBA_SIZE + 1])

FlowOK(w, prg, fin) ==
  /\ \A i \in 1 .. Len(lowReqs) : lowReqs[i].code = "FETCH" => w[i] = prg[lowReqs[i].page]
  /\ \A i \in 1 .. Len(lowReqs) :
       lowReqs[i].code # "FETCH" /\ First(lowReqs, i) => w[i] = data[lowReqs[i].entry]
  /\ \A i, j \in 1 .. Len(lowReqs) :
       lowReqs[j].code # "FETCH" /\ Adjacent(i, j) => w[j] = Received(lowReqs[j], w[i])
  /\ \A i \in 1 .. Len(lowReqs) : LastOf(i) => fin[lowReqs[i].entry] = w[i]
  /\ \A e \in Entry : Alone(lowReqs, e) => fin[e] = data[e]
  /\ \A i \in 1 .. Len(lowReqs) : lowReqs[i].code = "PROGRAM" => prg[lowReqs[i].page] = w[i]
  /\ \A p \in Pages : Programmed(lowReqs, p) => prg[p] = nand[p]
  /\ \A i \in 1 .. Len(lowReqs) : ReadOK(lowReqs[i], w[i])

DirtyOf(l) == \E e \in Entry : lsaOf[e] = l /\ dirty[e]
StoreOK(prg, fin) ==
  /\ \A e \in Entry, l \in LSAs : lsaOf[e] = l /\ ~ (pc = "fetch" /\ e = entry) => CurOK(fin[e], l)
  /\ \A l \in LSAs : ~ DirtyOf(l) /\ map[l] = NoPage => CurOK(Nothing, l)
  /\ \A l \in LSAs, p \in Pages : ~ DirtyOf(l) /\ map[l] = p => CurOK(prg[p], l)

\* Completions.
ToPost == pc # "idle" /\ ~ (pc = "slices" /\ sliceReqQ = <<>>)
WaitsToPost(i) == Waits(i) /\ lowReqs[i].cqEn
PostOK ==
  /\ ToPost => cmd.id \in open
  /\ \A i \in 1 .. Len(lowReqs) :
       WaitsToPost(i) => lowReqs[i].id \in open /\ (ToPost => lowReqs[i].id # cmd.id)
  /\ \A i, j \in 1 .. Len(lowReqs) :
       WaitsToPost(i) /\ WaitsToPost(j) /\ lowReqs[i].id = lowReqs[j].id => i = j
  /\ \A id \in open : \/ ToPost /\ id = cmd.id
                      \/ \E i \in 1 .. Len(lowReqs) : WaitsToPost(i) /\ lowReqs[i].id = id

-----------------------------------------------------------------------------

\* The commands of the host.
LEMMA CommandsAre ==
  ASSUME NEW c \in Commands
  PROVE  /\ IsCommand(c) /\ c.op \in {"READ", "WRITE"} /\ c.id \in CommandIds
         /\ c.val \in Val \cup {NONE} /\ (c.op = "WRITE" => c.val \in Val)
         /\ c.lba .. c.lba + c.nlb \subseteq LBAs
<1>1. /\ c \in [op : {"READ", "WRITE"}, id : CommandIds, lba : Nat, nlb : Nat,
                 offset : 0 .. LBA_SIZE - 1, listOffset : 0 .. PRPS_PER_LIST - 1, val : Val \cup {NONE}]
      /\ c.lba .. c.lba + c.nlb \subseteq LBAs
      /\ c.op = "WRITE" => c.val \in Val
  BY CommandsAssumption DEF Commands
<1> QED
  BY <1>1 DEF IsCommand

LEMMA CommandIsNotNoReq ==
  ASSUME NEW c \in Commands
  PROVE  c # NoReq
<1>1. c \in [op : {"READ", "WRITE"}, id : CommandIds, lba : Nat, nlb : Nat,
              offset : 0 .. LBA_SIZE - 1, listOffset : 0 .. PRPS_PER_LIST - 1, val : Val \cup {NONE}]
  BY CommandsAssumption DEF Commands
<1>2. SUFFICES ASSUME c = NoReq PROVE FALSE
  OBVIOUS
<1>3. DOMAIN c = {"op", "id", "lba", "nlb", "offset", "listOffset", "val"}
  BY <1>1
<1>4. DOMAIN NoReq = {"code"}
  BY DEF NoReq
<1> QED
  BY <1>2, <1>3, <1>4

\* A request is not the absence of one.
LEMMA ReqIsNotNoReq ==
  ASSUME NEW r, IsReq(r)
  PROVE  r # NoReq
<1>1. r.code # "none"
  BY DEF IsReq, Codes
<1>2. NoReq.code = "none"
  BY DEF NoReq
<1> QED
  BY <1>1, <1>2

\* A block is at one place of one slice.
LEMMA SameSlice ==
  ASSUME NEW x \in Nat, NEW y \in Nat, NEW a \in 0 .. NVME_BLOCKS_PER_SLICE - 1,
         NEW b \in 0 .. NVME_BLOCKS_PER_SLICE - 1,
         x * NVME_BLOCKS_PER_SLICE + a = y * NVME_BLOCKS_PER_SLICE + b
  PROVE  x = y /\ a = b
<1>1. CASE NVME_BLOCKS_PER_SLICE = 1
  BY <1>1
<1>2. CASE NVME_BLOCKS_PER_SLICE = 2
  BY <1>2
<1> QED
  BY <1>1, <1>2, SizesAssumption

\* A slice of a command is one of the drive.
LEMMA SliceIsOfDrive ==
  ASSUME NEW c \in Commands, NEW k \in 1 .. SliceCount(c)
  PROVE  LogicalSliceAddr(c, k) \in LSAs
<1> DEFINE n == NumOfNvmeBlock(c, k)
           o == NvmeBlockOffset(c, k)
           s == StartIndex(c, k)
           l == LogicalSliceAddr(c, k)
<1>1. IsCommand(c) /\ c.lba .. c.lba + c.nlb \subseteq LBAs /\ c.lba \in Nat /\ c.nlb \in Nat
  BY CommandsAre DEF IsCommand
<1>2. IsSlice(c, k, n, o, s, l)
  BY <1>1, SlicesAre
<1>3. /\ n \in Nat \ {0} /\ o \in {0, 1} /\ o + n <= NVME_BLOCKS_PER_SLICE
      /\ s \in Nat /\ l \in Nat /\ s + n <= c.nlb + 1 /\ l * NVME_BLOCKS_PER_SLICE + o = c.lba + s
  BY <1>2 DEF IsSlice, Blocks
<1> HIDE DEF n, o, s, l
<1>4. c.lba + s \in LBAs
  <2>1. c.lba + s \in c.lba .. c.lba + c.nlb
    BY <1>1, <1>3
  <2> QED
    BY <1>1, <2>1
<1>5. PICK m \in LSAs, b \in 0 .. NVME_BLOCKS_PER_SLICE - 1 : c.lba + s = m * NVME_BLOCKS_PER_SLICE + b
  BY <1>4 DEF LBAs
<1>6. m \in Nat /\ o \in 0 .. NVME_BLOCKS_PER_SLICE - 1
  BY <1>3, CommandsAssumption, SizesAssumption
<1>7. l = m
  BY <1>3, <1>5, <1>6, SameSlice
<1> QED
  BY <1>7 DEF l

\* The units of an entry that the pieces of a slice are about.
LEMMA TouchesIs ==
  ASSUME NEW c \in Commands, NEW k \in 1 .. SliceCount(c), NEW r, OfSlice(r, c, k), NEW u
  PROVE  Touches(r, u) <=> u \in Base(c, k) .. SliceEnd(c, k) - 1
<1>1. /\ Len(Moves(c, k)) = MoveCount(c, k) /\ DOMAIN Moves(c, k) = 1 .. Len(Moves(c, k))
      /\ \A i \in 1 .. MoveCount(c, k) : Moves(c, k)[i] = Move(c, k, i)
  BY MovesAre, CommandsAre
<1>2. r.moves = Moves(c, k)
  BY DEF OfSlice
<1>3. ASSUME NEW i \in 1 .. MoveCount(c, k)
      PROVE  Moved(Moves(c, k)[i]) = MoveAt(c, k, i) .. MoveAt(c, k, i) + MoveLen(c, k, i) - 1
  BY <1>1 DEF Move, Moved
<1>4. Touches(r, u) <=> \E i \in 1 .. MoveCount(c, k) :
                          u \in MoveAt(c, k, i) .. MoveAt(c, k, i) + MoveLen(c, k, i) - 1
  BY <1>1, <1>2, <1>3 DEF Touches
<1>5. /\ Base(c, k) \in Nat /\ SliceEnd(c, k) \in Nat
      /\ \A i \in 1 .. MoveCount(c, k) : MoveAt(c, k, i) \in Nat /\ MoveLen(c, k, i) \in Nat
  <2>1. LBA_SIZE \in Nat \ {0} /\ c.offset \in 0 .. LBA_SIZE - 1
    BY CommandsAre, SizesAssumption DEF IsCommand
  <2> QED
    BY <2>1 DEF Base, SliceEnd, MoveAt, MoveLen
<1>6. ASSUME NEW i \in 1 .. MoveCount(c, k), u \in MoveAt(c, k, i) .. MoveAt(c, k, i) + MoveLen(c, k, i) - 1
      PROVE  u \in Base(c, k) .. SliceEnd(c, k) - 1
  <2>1. Base(c, k) <= MoveAt(c, k, i) /\ MoveAt(c, k, i) + MoveLen(c, k, i) <= SliceEnd(c, k)
    BY MovesTile, CommandsAre
  <2> QED
    BY <2>1, <1>5, <1>6
<1>7. u \in Base(c, k) .. SliceEnd(c, k) - 1 =>
        \E i \in 1 .. MoveCount(c, k) : u \in MoveAt(c, k, i) .. MoveAt(c, k, i) + MoveLen(c, k, i) - 1
  BY MovesTile, CommandsAre
<1> QED
  BY <1>4, <1>6, <1>7

\* Sequences whose elements are not typed.
LEMMA IsSeqIs ==
  ASSUME NEW S, NEW s \in Seq(S)
  PROVE  IsSeq(s) /\ DOMAIN s = 1 .. Len(s) /\ Len(s) \in Nat
<1>1. DOMAIN s = 1 .. Len(s) /\ Len(s) \in Nat
  OBVIOUS
<1>2. \A i \in 1 .. Len(s) : s[i] \in ToSet(s)
  BY <1>1 DEF ToSet
<1>3. s \in Seq(ToSet(s))
  BY <1>2
<1> QED
  BY <1>1, <1>3 DEF IsSeq

LEMMA SeqOfIs ==
  ASSUME NEW n \in Nat, NEW s, s = [i \in 1 .. n |-> s[i]]
  PROVE  IsSeq(s) /\ Len(s) = n
<1> DEFINE S == {s[i] : i \in 1 .. n}
<1>1. \A i \in 1 .. n : s[i] \in S
  OBVIOUS
<1> HIDE DEF S
<1>2. s \in Seq(S) /\ Len(s) = n
  BY <1>1
<1> QED
  BY <1>2, IsSeqIs

LEMMA AppendIs ==
  ASSUME NEW s, IsSeq(s), NEW x
  PROVE  LET t == Append(s, x)
         IN  /\ IsSeq(t) /\ Len(t) = Len(s) + 1 /\ Len(s) \in Nat
             /\ \A i \in 1 .. Len(s) : t[i] = s[i]
             /\ t[Len(s) + 1] = x
<1> DEFINE S == ToSet(s) \cup {x}
<1>1. s \in Seq(S) /\ x \in S
  BY DEF IsSeq
<1> HIDE DEF S
<1>2. /\ Append(s, x) \in Seq(S) /\ Len(Append(s, x)) = Len(s) + 1 /\ Len(s) \in Nat
      /\ \A i \in 1 .. Len(s) : Append(s, x)[i] = s[i]
      /\ Append(s, x)[Len(s) + 1] = x
  BY <1>1, AppendProperties, LenProperties
<1>3. IsSeq(Append(s, x))
  BY <1>2, IsSeqIs
<1> QED
  BY <1>2, <1>3

LEMMA TailIs ==
  ASSUME NEW s, IsSeq(s), s # <<>>
  PROVE  /\ IsSeq(Tail(s)) /\ Len(Tail(s)) = Len(s) - 1 /\ Len(s) \in Nat \ {0}
         /\ \A i \in 1 .. Len(s) - 1 : Tail(s)[i] = s[i + 1]
         /\ Head(s) = s[1]
<1> DEFINE S == ToSet(s)
<1>1. s \in Seq(S)
  BY DEF IsSeq
<1> HIDE DEF S
<1>2. /\ Tail(s) \in Seq(S) /\ Len(Tail(s)) = Len(s) - 1 /\ Len(s) \in Nat \ {0}
      /\ \A i \in 1 .. Len(s) - 1 : Tail(s)[i] = s[i + 1]
      /\ Head(s) = s[1]
  BY <1>1
<1>3. IsSeq(Tail(s))
  BY <1>2, IsSeqIs
<1> QED
  BY <1>2, <1>3

LEMMA SeqSizes ==
  ASSUME NEW s, IsSeq(s)
  PROVE  Len(s) \in Nat /\ DOMAIN s = 1 .. Len(s) /\ (Len(s) = 0 <=> s = <<>>)
BY DEF IsSeq

-----------------------------------------------------------------------------
\* Requests.
SameButGot(q, r) ==
  /\ IsReq(q) /\ q.code = r.code /\ q.id = r.id /\ q.val = r.val /\ q.cqEn = r.cqEn /\ q.lsa = r.lsa
  /\ q.num = r.num /\ q.moves = r.moves /\ q.expect = r.expect /\ q.entry = r.entry /\ q.page = r.page

\* Sent notes what was taken and changes nothing else.
LEMMA SentIs ==
  ASSUME NEW r, IsReq(r), NEW d
  PROVE  /\ SameButGot(Sent(r, d), r)
         /\ Sent(r, d).got = IF r.code = "TxDMA" THEN Got(r, d) ELSE r.got
<1>1. CASE r.code # "TxDMA"
  BY <1>1 DEF Sent, SameButGot
<1>2. CASE r.code = "TxDMA"
  <2>1. PICK g : g = Got(r, d)
    OBVIOUS
  <2>2. Sent(r, d) = [r EXCEPT !.got = g]
    BY <1>2, <2>1 DEF Sent
  <2>3. Sent(r, d) = [code |-> r.code, id |-> r.id, val |-> r.val, cqEn |-> r.cqEn, lsa |-> r.lsa,
                      num |-> r.num, moves |-> r.moves, expect |-> r.expect, entry |-> r.entry,
                      page |-> r.page, got |-> g]
    BY <2>2 DEF IsReq
  <2> QED
    BY <1>2, <2>1, <2>3 DEF SameButGot, IsReq
<1> QED
  BY <1>1, <1>2

DmaOf(r, e) == [r EXCEPT !.entry = e, !.code = IF @ = "WRITE" THEN "RxDMA" ELSE "TxDMA"]

\* The DMA request of a slice request.
LEMMA DmaOfIs ==
  ASSUME NEW r, IsReq(r), NEW e
  PROVE  LET q == DmaOf(r, e)
         IN  /\ IsReq(q) /\ q.code = IF r.code = "WRITE" THEN "RxDMA" ELSE "TxDMA"
             /\ q.id = r.id /\ q.val = r.val /\ q.cqEn = r.cqEn /\ q.lsa = r.lsa
             /\ q.num = r.num /\ q.moves = r.moves /\ q.expect = r.expect /\ q.entry = e
             /\ q.page = r.page /\ q.got = r.got
<1>1. DmaOf(r, e) = [code |-> IF r.code = "WRITE" THEN "RxDMA" ELSE "TxDMA",
                     id |-> r.id, val |-> r.val, cqEn |-> r.cqEn, lsa |-> r.lsa,
                     num |-> r.num, moves |-> r.moves, expect |-> r.expect, entry |-> e,
                     page |-> r.page, got |-> r.got]
  <2>1. PICK x : x = IF r.code = "WRITE" THEN "RxDMA" ELSE "TxDMA"
    OBVIOUS
  <2>2. DmaOf(r, e) = [r EXCEPT !.entry = e, !.code = x]
    <3>1. DOMAIN r = {"code", "id", "val", "cqEn", "lsa", "num", "moves", "expect", "entry", "page", "got"}
      BY DEF IsReq
    <3>2. [r EXCEPT !.entry = e].code = r.code
      BY <3>1
    <3> QED
      BY <2>1, <3>2 DEF DmaOf
  <2>3. [r EXCEPT !.entry = e]
          = [code |-> r.code, id |-> r.id, val |-> r.val, cqEn |-> r.cqEn, lsa |-> r.lsa,
             num |-> r.num, moves |-> r.moves, expect |-> r.expect, entry |-> e,
             page |-> r.page, got |-> r.got]
    BY DEF IsReq
  <2>4. PICK q : q = [r EXCEPT !.entry = e]
    OBVIOUS
  <2>5. [r EXCEPT !.entry = e, !.code = x] = [q EXCEPT !.code = x]
    BY <2>4
  <2>6. [q EXCEPT !.code = x]
          = [code |-> x, id |-> r.id, val |-> r.val, cqEn |-> r.cqEn, lsa |-> r.lsa,
             num |-> r.num, moves |-> r.moves, expect |-> r.expect, entry |-> e,
             page |-> r.page, got |-> r.got]
    <3>1. q = [code |-> r.code, id |-> r.id, val |-> r.val, cqEn |-> r.cqEn, lsa |-> r.lsa,
               num |-> r.num, moves |-> r.moves, expect |-> r.expect, entry |-> e,
               page |-> r.page, got |-> r.got]
      BY <2>3, <2>4, Zenon
    <3> HIDE <2>4
    <3> QED
      BY <3>1, SMTT(30)
  <2> QED
    BY <2>1, <2>2, <2>5, <2>6, Zenon
<1>2. DmaOf(r, e).code \in Codes
  BY <1>1 DEF Codes
<1> QED
  BY <1>1, <1>2 DEF IsReq

LEMMA NandReqIs ==
  ASSUME NEW code \in {"PROGRAM", "FETCH"}, NEW e, NEW p
  PROVE  LET q == NandReq(code, e, p)
         IN  /\ IsReq(q) /\ q.code = code /\ q.entry = e /\ q.page = p /\ q.got = <<>> /\ q.cqEn = FALSE
             /\ ~ IsDma(q)
BY DEF NandReq, IsReq, Codes, IsDma

LEMMA SliceReqIs ==
  ASSUME NEW c \in Commands, NEW k
  PROVE  /\ IsReq(SliceReq(c, k)) /\ OfSlice(SliceReq(c, k), c, k) /\ SliceReq(c, k).code = c.op
         /\ SliceReq(c, k).got = <<>> /\ SliceReq(c, k).expect = Expected(c, k)
<1>1. c.op \in Codes
  BY CommandsAre DEF Codes
<1>2. PICK x : x = Expected(c, k)
  OBVIOUS
<1>3. SliceReq(c, k) =
        [code |-> c.op, id |-> c.id, val |-> c.val, cqEn |-> CqEn(c, k),
         lsa |-> LogicalSliceAddr(c, k), num |-> NumOfNvmeBlock(c, k), moves |-> Moves(c, k),
         expect |-> x, entry |-> 0, page |-> NoPage, got |-> <<>>]
  BY <1>2, Zenon DEF SliceReq, Expected
<1> QED
  BY <1>1, <1>2, <1>3 DEF IsReq, OfSlice

\* What an entry holds when a request has run.
LEMMA ReceivedIs ==
  ASSUME NEW r, r.code = "RxDMA" => r.val \in Val \cup {NONE}, NEW d \in Content
  PROVE  /\ Received(r, d) \in Content
         /\ \A u \in Units : Received(r, d)[u] = IF r.code = "RxDMA" /\ Touches(r, u) THEN r.val ELSE d[u]
<1>1. CASE r.code # "RxDMA"
  BY <1>1 DEF Received
<1>2. CASE r.code = "RxDMA"
  <2>1. Received(r, d) = [u \in Units |-> IF Touches(r, u) THEN r.val ELSE d[u]]
    BY <1>2, Zenon DEF Received, Touches
  <2> QED
    BY <1>2, <2>1 DEF Content
<1> QED
  BY <1>1, <1>2

\* What Select does.
LEMMA SelectIs ==
  ASSUME NEW r, NEW p, IsReq(r), IsSeq(lowReqs), r.entry \in Entry, data \in [Entry -> Content],
         r.code = "RxDMA" => r.val \in Val \cup {NONE}, Select(r, p)
  PROVE  LET now == IsDma(r) /\ Alone(lowReqs, r.entry)
             n == Len(lowReqs)
         IN  /\ pc' = p /\ IsSeq(lowReqs') /\ n \in Nat /\ Len(lowReqs') = n + 1
             /\ \A i \in 1 .. n : lowReqs'[i] = lowReqs[i]
             /\ SameButGot(lowReqs'[n + 1], r)
             /\ lowReqs'[n + 1].got
                  = IF now /\ r.code = "TxDMA" THEN Got(r, data[r.entry]) ELSE r.got
             /\ data' \in [Entry -> Content]
             /\ \A e \in Entry : data'[e] = IF now /\ e = r.entry THEN Received(r, data[e]) ELSE data[e]
             /\ open' = IF now /\ r.cqEn THEN open \ {r.id} ELSE open
<1>1. pc' = p
  BY DEF Select
<1>2. CASE IsDma(r) /\ Alone(lowReqs, r.entry)
  <2>1. /\ data' = [data EXCEPT ![r.entry] = Received(r, data[r.entry])]
        /\ open' = IF r.cqEn THEN open \ {r.id} ELSE open
        /\ lowReqs' = Append(lowReqs, Sent(r, data[r.entry]))
    BY <1>2, Zenon DEF Select, Issue
  <2>2. Received(r, data[r.entry]) \in Content
    BY ReceivedIs
  <2>3. /\ data' \in [Entry -> Content]
        /\ \A e \in Entry : data'[e] = IF e = r.entry THEN Received(r, data[e]) ELSE data[e]
    BY <2>1, <2>2
  <2>4. /\ IsSeq(lowReqs') /\ Len(lowReqs) \in Nat /\ Len(lowReqs') = Len(lowReqs) + 1
        /\ \A i \in 1 .. Len(lowReqs) : lowReqs'[i] = lowReqs[i]
        /\ lowReqs'[Len(lowReqs) + 1] = Sent(r, data[r.entry])
    BY <2>1, AppendIs
  <2>5. /\ SameButGot(Sent(r, data[r.entry]), r)
        /\ Sent(r, data[r.entry]).got = IF r.code = "TxDMA" THEN Got(r, data[r.entry]) ELSE r.got
    BY SentIs
  <2> QED
    BY <1>1, <1>2, <2>1, <2>3, <2>4, <2>5
<1>3. CASE ~ (IsDma(r) /\ Alone(lowReqs, r.entry))
  <2>1. data' = data /\ open' = open /\ lowReqs' = Append(lowReqs, r)
    BY <1>3, Zenon DEF Select
  <2>2. /\ IsSeq(lowReqs') /\ Len(lowReqs) \in Nat /\ Len(lowReqs') = Len(lowReqs) + 1
        /\ \A i \in 1 .. Len(lowReqs) : lowReqs'[i] = lowReqs[i]
        /\ lowReqs'[Len(lowReqs) + 1] = r
    BY <2>1, AppendIs
  <2>3. SameButGot(r, r)
    BY DEF SameButGot
  <2> QED
    BY <1>1, <1>3, <2>1, <2>2, <2>3
<1> QED
  BY <1>2, <1>3

\* There is a page for every write-back.
LEMMA FreePageIs ==
  ASSUME map \in [LSAs -> Pages \cup {NoPage}], IsSeq(lowReqs), Len(lowReqs) < Slots
  PROVE  FreePage \in Pages /\ ~ InUse(FreePage)
<1> DEFINE n == Len(lowReqs)
           M == {map[l] : l \in LSAs}
           L == {lowReqs[i].page : i \in 1 .. n}
           f == [l \in LSAs |-> map[l]]
           g == [i \in 1 .. n |-> lowReqs[i].page]
<1>1. n \in Nat /\ DOMAIN lowReqs = 1 .. n
  BY SeqSizes
<1>2. IsFiniteSet(M) /\ Cardinality(M) <= Cardinality(LSAs)
  <2>1. f \in Surjection(LSAs, M)
    BY DEF Surjection
  <2> QED
    BY <2>1, FS_Surjection, PagesAssumption
<1>3. IsFiniteSet(L) /\ Cardinality(L) <= n
  <2>1. g \in Surjection(1 .. n, L)
    BY DEF Surjection
  <2>2. IsFiniteSet(1 .. n) /\ Cardinality(1 .. n) = n
    BY <1>1, FS_Interval
  <2> HIDE DEF n, L, g
  <2> QED
    BY <2>1, <2>2, FS_Surjection
<1> HIDE DEF n, M, L
<1>4. IsFiniteSet(M \cup L) /\ Cardinality(M \cup L) <= Cardinality(LSAs) + n
  <2>1. /\ IsFiniteSet(M \cup L)
        /\ Cardinality(M \cup L) = Cardinality(M) + Cardinality(L) - Cardinality(M \cap L)
    BY <1>2, <1>3, FS_Union
  <2>2. Cardinality(M) \in Nat /\ Cardinality(L) \in Nat /\ Cardinality(M \cap L) \in Nat
    BY <1>2, <1>3, FS_Intersection, FS_CardinalityType
  <2>3. Cardinality(LSAs) \in Nat
    BY PagesAssumption, FS_CardinalityType
  <2> QED
    BY <1>1, <1>2, <1>3, <2>1, <2>2, <2>3
<1>5. ~ Pages \subseteq M \cup L
  <2>1. SUFFICES ASSUME Pages \subseteq M \cup L PROVE FALSE
    OBVIOUS
  <2>2. Cardinality(Pages) <= Cardinality(M \cup L)
    BY <2>1, <1>4, FS_Subset
  <2>3. Cardinality(Pages) \in Nat /\ Cardinality(M \cup L) \in Nat /\ Cardinality(LSAs) \in Nat
    BY <1>4, PagesAssumption, FS_CardinalityType
  <2>4. Cardinality(Pages) >= Cardinality(LSAs) + Slots /\ Slots \in Nat
    BY PagesAssumption
  <2>5. n < Slots
    BY DEF n
  <2> QED
    BY <1>1, <1>4, <2>2, <2>3, <2>4, <2>5
<1>6. PICK p \in Pages : p \notin M \cup L
  BY <1>5
<1>7. ~ InUse(p)
  BY <1>1, <1>6 DEF InUse, M, L, n
<1> QED
  BY <1>6, <1>7 DEF FreePage

TypeInv == TypeOK /\ ListsAgree /\ DirectoryOK /\ QueueOK /\ LowReqsOK

\* What the types say where it is needed.
LEMMA Types ==
  ASSUME TypeInv
  PROVE  /\ data \in [Entry -> Content] /\ nand \in [Pages -> Content]
         /\ map \in [LSAs -> Pages \cup {NoPage}] /\ disk \in [LBAs -> Val \cup {NONE}]
         /\ lsaOf \in [Entry -> Nat \cup {LSA_NONE}] /\ dirty \in [Entry -> BOOLEAN]
         /\ entry \in Entry /\ DataBufTypeOK /\ ListsAgree /\ DirectoryOK /\ QueueOK /\ LowReqsOK
         /\ Len(lowReqs) \in Nat /\ DOMAIN lowReqs = 1 .. Len(lowReqs)
         /\ Len(sliceReqQ) \in Nat /\ DOMAIN sliceReqQ = 1 .. Len(sliceReqQ)
BY SeqSizes DEF TypeInv, TypeOK, DataBufTypeOK, Content, LowReqsOK

\* The request in hand is the next slice of the command in hand.
NextSlice(k) == cmd \in Commands /\ k \in 1 .. SliceCount(cmd) /\ IsSliceReq(req, cmd, k) /\ IsReq(req)

\* What is known of the slice in hand.
LEMMA InHandIs ==
  ASSUME TypeInv, Busy
  PROVE  /\ NextSlice(SliceCount(cmd) - Len(sliceReqQ))
         /\ req # NoReq /\ req.lsa \in LSAs /\ req.lsa \in Nat
         /\ req.code \in {"READ", "WRITE"} /\ req.code = cmd.op
         /\ req.code = "WRITE" => req.val \in Val
<1>1. QueueOK /\ LowReqsOK /\ Len(sliceReqQ) \in Nat
  BY Types
<1>2. pc # "idle" /\ req # NoReq
  BY <1>1 DEF Busy, QueueOK
<1>3. cmd \in Commands /\ IsReq(req)
  BY <1>1, <1>2 DEF QueueOK, LowReqsOK
<1>4. SliceCount(cmd) \in Nat \ {0}
  BY <1>3, CommandsAre, SlicesAre
<1> DEFINE k == SliceCount(cmd) - Len(sliceReqQ)
<1>5. k \in 1 .. SliceCount(cmd) /\ IsSliceReq(req, cmd, k)
  BY <1>1, <1>4 DEF QueueOK
<1>6. req.lsa = LogicalSliceAddr(cmd, k) /\ req.code = cmd.op /\ req.val = cmd.val
  BY <1>5 DEF IsSliceReq, OfSlice
<1>7. req.lsa \in LSAs
  BY <1>3, <1>5, <1>6, SliceIsOfDrive
<1>8. cmd.op \in {"READ", "WRITE"} /\ (cmd.op = "WRITE" => cmd.val \in Val)
  BY <1>3, CommandsAre
<1> QED
  BY <1>2, <1>3, <1>5, <1>6, <1>7, <1>8, CommandsAssumption DEF NextSlice

\* A queue that is not touched stays as it was.
LEMMA QueueStays ==
  ASSUME TypeInv, UNCHANGED <<sliceReqQ, req, cmd, disk>>,
         pc # "idle", pc' # "idle", Busy' <=> Busy,
         pc' \in {"fetch", "dma"} => lsaOf'[entry'] = req.lsa,
         pc' = "fetch" => ~ dirty'[entry']
  PROVE  QueueOK'
<1>1. QueueOK
  BY Types
<1>2. \A c, k : Expected(c, k)' = Expected(c, k)
  BY DEF Expected
<1>3. \A r, c, k : IsSliceReq(r, c, k)' <=> IsSliceReq(r, c, k)
  BY <1>2 DEF IsSliceReq
<1> QED
  BY <1>1, <1>3 DEF QueueOK

\* The slots in use do not become more.
LEMMA InHandStays ==
  ASSUME TypeInv, Len(sliceReqQ') + Len(lowReqs') <= Len(sliceReqQ) + Len(lowReqs),
         Len(sliceReqQ') \in Nat, Len(lowReqs') \in Nat, req' = NoReq \/ req # NoReq
  PROVE  InHand' <= Slots
<1>1. InHand <= Slots /\ Slots \in Nat /\ Len(lowReqs) \in Nat /\ Len(sliceReqQ) \in Nat
  BY Types, PagesAssumption DEF TypeInv, TypeOK
<1> QED
  BY <1>1 DEF InHand

\* One lemma per action: it keeps TypeInv.
LEMMA InitTypes == Init => TypeInv
<1> SUFFICES ASSUME Init PROVE TypeInv
  OBVIOUS
<1>1. DataBufTypeOK /\ ListsAgree
  BY InitDirectory DEF Init
<1>2. 0 \in Entry
  BY EntryCountAssumption DEF Entry
<1>3. InHand = 0 /\ Slots \in Nat
  BY PagesAssumption DEF Init, InHand
<1>4. MaxCommands \in Nat
  BY CommandsAssumption
<1>5. Nothing \in [Units -> Val \cup {NONE}]
  BY DEF Nothing
<1>6. /\ data \in [Entry -> [Units -> Val \cup {NONE}]] /\ nand \in [Pages -> [Units -> Val \cup {NONE}]]
      /\ map \in [LSAs -> Pages \cup {NoPage}] /\ disk \in [LBAs -> Val \cup {NONE}]
  BY <1>5 DEF Init
<1>7. DOMAIN lowReqs = {}
  BY DEF Init
<1>8. TypeOK
  BY <1>1, <1>2, <1>3, <1>4, <1>6, <1>7 DEF Init, TypeOK
<1>9. DirectoryOK
  BY DEF Init, InitDataBuf, DirectoryOK
<1>10. QueueOK
  BY DEF Init, QueueOK, Busy
<1>11. LowReqsOK
  <2>1. <<>> \in Seq({}) /\ Len(<<>>) = 0
    OBVIOUS
  <2>2. IsSeq(<<>>)
    BY <2>1, IsSeqIs
  <2> QED
    BY <2>1, <2>2 DEF Init, LowReqsOK
<1> QED
  BY <1>1, <1>8, <1>9, <1>10, <1>11 DEF TypeInv

LEMMA SliceReqQEmptyTypes ==
  ASSUME TypeInv, SliceReqQEmpty
  PROVE  TypeInv'
<1>1. /\ pc = "slices" /\ sliceReqQ = <<>> /\ pc' = "idle" /\ cmd' = NoReq
      /\ UNCHANGED <<sent, sliceReqQ, req, entry, lowReqs, map, data, nand, open, disk, lsaOf, dirty, lru, hash>>
  BY DEF SliceReqQEmpty, deviceVars, dataBufVars
<1>2. req = NoReq
  BY <1>1, Types DEF QueueOK, Busy
<1>3. DataBufTypeOK' /\ ListsAgree' /\ DirectoryOK'
  <2>1. dirty' \in [Entry -> BOOLEAN]
    BY <1>1, Types
  <2>2. DataBufTypeOK' /\ ListsAgree'
    BY <1>1, <2>1, SameDirectory, Types
  <2> QED
    BY <1>1, <2>2, Types DEF DirectoryOK, Holds
<1>4. InHand' = InHand
  BY <1>1 DEF InHand
<1>5. TypeOK'
  BY <1>1, <1>3, <1>4 DEF TypeInv, TypeOK
<1>6. QueueOK'
  BY <1>1, <1>2 DEF QueueOK, Busy
<1>7. LowReqsOK'
  BY <1>1, Types DEF LowReqsOK
<1> QED
  BY <1>3, <1>5, <1>6, <1>7 DEF TypeInv

LEMMA GetFromSliceReqQTypes ==
  ASSUME TypeInv, GetFromSliceReqQ
  PROVE  TypeInv'
<1>1. /\ pc = "slices" /\ sliceReqQ # <<>> /\ pc' = "find"
      /\ req' = Head(sliceReqQ) /\ sliceReqQ' = Tail(sliceReqQ)
      /\ UNCHANGED <<cmd, sent, entry, lowReqs, map, data, nand, open, disk, lsaOf, dirty, lru, hash>>
  BY DEF GetFromSliceReqQ, dataBufVars
<1>2. req = NoReq /\ cmd \in Commands /\ Len(sliceReqQ) <= SliceCount(cmd)
  BY <1>1, Types DEF QueueOK, Busy
<1>3. /\ IsSeq(sliceReqQ') /\ Len(sliceReqQ') = Len(sliceReqQ) - 1 /\ Len(sliceReqQ) \in Nat \ {0}
      /\ \A i \in 1 .. Len(sliceReqQ) - 1 : sliceReqQ'[i] = sliceReqQ[i + 1]
      /\ req' = sliceReqQ[1]
  <2>1. IsSeq(sliceReqQ)
    BY Types DEF LowReqsOK
  <2> QED
    BY <1>1, <2>1, TailIs
<1>4. SliceCount(cmd) \in Nat
  BY <1>2, CommandsAre, SlicesAre
<1>5. \A j \in 1 .. Len(sliceReqQ) :
        IsReq(sliceReqQ[j]) /\ IsSliceReq(sliceReqQ[j], cmd, SliceCount(cmd) - Len(sliceReqQ) + j)
  BY <1>1, Types DEF QueueOK, LowReqsOK
<1>6. 1 \in 1 .. Len(sliceReqQ) /\ \A i \in 1 .. Len(sliceReqQ) - 1 : i + 1 \in 1 .. Len(sliceReqQ)
  BY <1>3
<1>7. req' # NoReq /\ IsReq(req') /\ req'.code \in {"READ", "WRITE"}
  <2>1. IsReq(req') /\ req'.code = cmd.op
    BY <1>3, <1>5, <1>6 DEF IsSliceReq
  <2> QED
    BY <2>1, <1>2, CommandsAre, ReqIsNotNoReq
<1>8. DataBufTypeOK' /\ ListsAgree' /\ DirectoryOK'
  <2>1. dirty' \in [Entry -> BOOLEAN]
    BY <1>1, Types
  <2>2. DataBufTypeOK' /\ ListsAgree'
    BY <1>1, <2>1, SameDirectory, Types
  <2> QED
    BY <1>1, <2>2, Types DEF DirectoryOK, Holds
<1>9. InHand' = InHand
  BY <1>1, <1>2, <1>3, <1>7, Types DEF InHand
<1>10. TypeOK'
  <2>1. cmd # NoReq
    BY <1>1 DEF TypeInv, TypeOK
  <2> QED
    BY <1>1, <1>7, <1>8, <1>9, <2>1 DEF TypeInv, TypeOK
<1>11. QueueOK'
  <2>1. \A r, c, k : IsSliceReq(r, c, k)' <=> IsSliceReq(r, c, k)
    BY <1>1 DEF IsSliceReq, Expected
  <2>2. \A j \in 1 .. Len(sliceReqQ') : IsSliceReq(sliceReqQ'[j], cmd, SliceCount(cmd) - Len(sliceReqQ') + j)
    <3>1. SUFFICES ASSUME NEW j \in 1 .. Len(sliceReqQ')
                   PROVE  IsSliceReq(sliceReqQ'[j], cmd, SliceCount(cmd) - Len(sliceReqQ') + j)
      OBVIOUS
    <3>2. j + 1 \in 1 .. Len(sliceReqQ) /\ sliceReqQ'[j] = sliceReqQ[j + 1]
      BY <1>3, <3>1
    <3>3. SliceCount(cmd) - Len(sliceReqQ) + (j + 1) = SliceCount(cmd) - Len(sliceReqQ') + j
      BY <1>3, <1>4, <3>1
    <3> QED
      BY <1>5, <3>2, <3>3
  <2>3. IsSliceReq(req', cmd, SliceCount(cmd) - Len(sliceReqQ'))
    <3>1. SliceCount(cmd) - Len(sliceReqQ) + 1 = SliceCount(cmd) - Len(sliceReqQ')
      BY <1>3, <1>4
    <3> QED
      BY <1>3, <1>5, <1>6, <3>1
  <2>4. Len(sliceReqQ') < SliceCount(cmd)
    BY <1>2, <1>3, <1>4
  <2>5. cmd.op = "WRITE" => \A b \in cmd.lba .. cmd.lba + cmd.nlb : disk[b] = cmd.val
    BY <1>1, Types DEF QueueOK
  <2>6. Busy' /\ pc' # "idle" /\ pc' \notin {"fetch", "dma"} /\ cmd' = cmd /\ disk' = disk
    BY <1>1 DEF Busy
  <2> QED
    BY <1>2, <1>4, <1>7, <2>1, <2>2, <2>3, <2>4, <2>5, <2>6 DEF QueueOK
<1>12. LowReqsOK'
  <2>1. \A j \in 1 .. Len(sliceReqQ') : IsReq(sliceReqQ'[j])
    BY <1>3, <1>5, <1>6
  <2> QED
    BY <1>1, <1>3, <1>7, <2>1, Types DEF LowReqsOK
<1> QED
  BY <1>8, <1>10, <1>11, <1>12 DEF TypeInv

LEMMA HitTypes ==
  ASSUME TypeInv, NEW e \in Entry, Hit(e)
  PROVE  TypeInv'
<1>1. /\ pc = "find" /\ pc' = "dma" /\ entry' = e /\ CheckDataBufHit(req.lsa, e)
      /\ UNCHANGED <<cmd, sent, sliceReqQ, req, lowReqs, map, data, nand, open, disk>>
  BY DEF Hit
<1>2. lsaOf' = lsaOf /\ dirty' = dirty /\ e \in Found(req.lsa)
  BY <1>1 DEF CheckDataBufHit
<1>3. DataBufTypeOK' /\ ListsAgree'
  BY <1>1, Types, HitKeepsDirectory
<1>4. DirectoryOK'
  BY <1>2, Types DEF DirectoryOK, Holds
<1>5. lsaOf[e] = req.lsa
  BY <1>2 DEF Found
<1>6. InHand' = InHand
  BY <1>1 DEF InHand
<1>7. TypeOK'
  BY <1>1, <1>3, <1>6 DEF TypeInv, TypeOK
<1>8. QueueOK'
  <2>1. (Busy' <=> Busy) /\ pc # "idle" /\ pc' # "idle"
    BY <1>1 DEF Busy
  <2>2. (pc' \in {"fetch", "dma"} => lsaOf'[entry'] = req.lsa) /\ (pc' = "fetch" => ~ dirty'[entry'])
    BY <1>1, <1>2, <1>5
  <2> QED
    BY <1>1, <2>1, <2>2, QueueStays
<1>9. LowReqsOK'
  BY <1>1, Types DEF LowReqsOK
<1> QED
  BY <1>3, <1>4, <1>7, <1>8, <1>9 DEF TypeInv

LEMMA TakeCommandTypes ==
  ASSUME TypeInv, NEW c \in Commands, TakeCommand(c)
  PROVE  TypeInv'
<1>1. /\ pc = "idle" /\ sent < MaxCommands /\ sent' = sent + 1 /\ open' = open \cup {c.id}
      /\ FreeSlots(SliceCount(c))
      /\ sliceReqQ' = [k \in 1 .. SliceCount(c) |-> SliceReq(c, k)]
      /\ disk' = [b \in LBAs |->
                    IF c.op = "WRITE" /\ b \in c.lba .. c.lba + c.nlb THEN c.val ELSE disk[b]]
      /\ pc' = "slices" /\ cmd' = c
      /\ UNCHANGED <<req, entry, lowReqs, map, data, nand, lsaOf, dirty, lru, hash>>
  BY DEF TakeCommand, dataBufVars
<1>2. req = NoReq /\ sliceReqQ = <<>>
  BY <1>1, Types DEF QueueOK, Busy
<1>3. SliceCount(c) \in Nat
  BY CommandsAre, SlicesAre
<1>4. /\ IsSeq(sliceReqQ') /\ Len(sliceReqQ') = SliceCount(c)
      /\ \A k \in 1 .. SliceCount(c) : sliceReqQ'[k] = SliceReq(c, k)
  <2>1. \A k \in 1 .. SliceCount(c) : sliceReqQ'[k] = SliceReq(c, k)
    BY <1>1, Zenon
  <2>2. sliceReqQ' = [k \in 1 .. SliceCount(c) |-> sliceReqQ'[k]]
    BY <1>1, <2>1, Zenon
  <2> QED
    BY <1>3, <2>1, <2>2, SeqOfIs
<1>5. DataBufTypeOK' /\ ListsAgree' /\ DirectoryOK'
  <2>1. dirty' \in [Entry -> BOOLEAN]
    BY <1>1, Types
  <2>2. DataBufTypeOK' /\ ListsAgree'
    BY <1>1, <2>1, SameDirectory, Types
  <2> QED
    BY <1>1, <2>2, Types DEF DirectoryOK, Holds
<1>6. disk' \in [LBAs -> Val \cup {NONE}]
  BY <1>1, CommandsAre, Types
<1>7. InHand' <= Slots
  <2>1. Len(sliceReqQ) = 0 /\ Len(lowReqs) \in Nat
    BY <1>2, Types
  <2>2. 0 + Len(lowReqs) + 0 + SliceCount(c) <= Slots
    BY <1>1, <1>2, <2>1 DEF FreeSlots, InHand
  <2>3. InHand' = SliceCount(c) + Len(lowReqs) + 0
    BY <1>1, <1>2, <1>4 DEF InHand
  <2> QED
    BY <1>3, <2>1, <2>2, <2>3
<1>8. sent' \in 0 .. MaxCommands /\ open' \subseteq CommandIds
  BY <1>1, CommandsAre, CommandsAssumption DEF TypeInv, TypeOK
<1>9. cmd' # NoReq
  BY <1>1, CommandIsNotNoReq
<1>10. TypeOK'
  BY <1>1, <1>2, <1>5, <1>6, <1>7, <1>8, <1>9 DEF TypeInv, TypeOK
<1>11. ASSUME NEW k \in 1 .. SliceCount(c)
       PROVE  /\ IsReq(sliceReqQ'[k]) /\ OfSlice(sliceReqQ'[k], c, k)
              /\ sliceReqQ'[k].code = c.op /\ sliceReqQ'[k].got = <<>>
              /\ c.op = "READ" => sliceReqQ'[k].expect = Expected(c, k)'
  <2>1. PICK q : q = SliceReq(c, k)
    OBVIOUS
  <2>2. /\ IsReq(q) /\ OfSlice(q, c, k) /\ q.code = c.op /\ q.got = <<>> /\ q.expect = Expected(c, k)
    BY <2>1, SliceReqIs
  <2>3. c.op = "READ" => Expected(c, k)' = Expected(c, k)
    <3>1. SUFFICES ASSUME c.op = "READ" PROVE disk' = disk
      BY DEF Expected
    <3>2. disk' = [b \in LBAs |-> disk[b]]
      BY <1>1, <3>1
    <3> QED
      BY <3>2, Types
  <2>4. sliceReqQ'[k] = q
    BY <2>1, <1>4
  <2> QED
    BY <2>2, <2>3, <2>4
<1>12. QueueOK'
  <2>1. \A b \in c.lba .. c.lba + c.nlb : c.op = "WRITE" => disk'[b] = c.val
    BY <1>1, CommandsAre
  <2>2. ASSUME NEW j \in 1 .. Len(sliceReqQ')
        PROVE  IsSliceReq(sliceReqQ[j], cmd, SliceCount(cmd) - Len(sliceReqQ) + j)'
    <3>1. j \in 1 .. SliceCount(c) /\ SliceCount(c) - Len(sliceReqQ') + j = j
      BY <1>3, <1>4
    <3> QED
      BY <1>1, <1>11, <3>1 DEF IsSliceReq
  <2>3. ~ Busy' /\ req' = NoReq /\ pc' # "idle" /\ pc' \notin {"fetch", "dma"}
    BY <1>1, <1>2 DEF Busy
  <2> QED
    BY <1>1, <1>3, <1>4, <2>1, <2>2, <2>3 DEF QueueOK
<1>13. LowReqsOK'
  BY <1>1, <1>2, <1>4, <1>11, Types DEF LowReqsOK
<1> QED
  BY <1>5, <1>10, <1>12, <1>13 DEF TypeInv

\* What a request receives is what the host writes.
LEMMA ReceivedVal ==
  ASSUME NEW r, LowReq(r)
  PROVE  /\ r.code = "RxDMA" => r.val \in Val \cup {NONE}
         /\ ~ IsDma(r) => r.cqEn = FALSE /\ r.page \in Pages
         /\ IsDma(r) => IsDmaReq(r)
<1>1. IsNandReq(r) => r.code \in {"PROGRAM", "FETCH"} /\ r.cqEn = FALSE /\ r.page \in Pages
  BY DEF IsNandReq
<1>2. IsDmaReq(r) => r.code \in {"RxDMA", "TxDMA"} /\ r.val \in Val \cup {NONE}
  BY CommandsAre DEF IsDmaReq, OfSlice
<1> QED
  BY <1>1, <1>2 DEF LowReq, IsDma

\* A request stays one when it was sent.
LEMMA LowReqStays ==
  ASSUME NEW q, NEW r, SameButGot(q, r), LowReq(r), r.code # "TxDMA" => q.got = <<>>
  PROVE  LowReq(q)
<1>1. IsReq(q) /\ q.entry \in Entry /\ (q.code # "TxDMA" => q.got = <<>>)
  BY DEF SameButGot, LowReq
<1>2. CASE IsNandReq(r)
  BY <1>1, <1>2 DEF SameButGot, LowReq, IsNandReq
<1>3. CASE IsDmaReq(r)
  <2>1. PICK c, k :
          /\ c \in Commands /\ k \in 1 .. SliceCount(c)
          /\ OfSlice(r, c, k) /\ r.code = IF c.op = "WRITE" THEN "RxDMA" ELSE "TxDMA"
    BY <1>3 DEF IsDmaReq
  <2>2. OfSlice(q, c, k) /\ q.code = IF c.op = "WRITE" THEN "RxDMA" ELSE "TxDMA"
    BY <2>1 DEF OfSlice, SameButGot
  <2>3. IsDmaReq(q)
    BY <2>1, <2>2 DEF IsDmaReq
  <2> QED
    BY <1>1, <2>3 DEF LowReq
<1> QED
  BY <1>2, <1>3 DEF LowReq

\* A request is handed to the lower layer.
LEMMA SelectTypes ==
  ASSUME TypeInv, NEW r, LowReq(r), r.got = <<>>, NEW p, Select(r, p)
  PROVE  /\ pc' = p /\ IsSeq(lowReqs') /\ Len(lowReqs') = Len(lowReqs) + 1
         /\ \A i \in 1 .. Len(lowReqs') : LowReq(lowReqs'[i])
         /\ data' \in [Entry -> Content] /\ open' \subseteq CommandIds
<1> DEFINE now == IsDma(r) /\ Alone(lowReqs, r.entry)
           n == Len(lowReqs)
<1>1. /\ pc' = p /\ IsSeq(lowReqs') /\ n \in Nat /\ Len(lowReqs') = n + 1
      /\ \A i \in 1 .. n : lowReqs'[i] = lowReqs[i]
      /\ SameButGot(lowReqs'[n + 1], r)
      /\ lowReqs'[n + 1].got = IF now /\ r.code = "TxDMA" THEN Got(r, data[r.entry]) ELSE r.got
      /\ data' \in [Entry -> Content]
      /\ open' = IF now /\ r.cqEn THEN open \ {r.id} ELSE open
  <2>1. IsReq(r) /\ r.entry \in Entry /\ (r.code = "RxDMA" => r.val \in Val \cup {NONE})
    BY ReceivedVal DEF LowReq
  <2>2. IsSeq(lowReqs) /\ data \in [Entry -> Content]
    BY Types DEF LowReqsOK
  <2> QED
    BY <2>1, <2>2, SelectIs
<1>2. LowReq(lowReqs'[n + 1])
  BY <1>1, LowReqStays
<1>3. \A i \in 1 .. n : LowReq(lowReqs[i])
  BY Types DEF LowReqsOK
<1>4. \A i \in 1 .. Len(lowReqs') : LowReq(lowReqs'[i])
  <2>1. SUFFICES ASSUME NEW i \in 1 .. Len(lowReqs') PROVE LowReq(lowReqs'[i])
    OBVIOUS
  <2>2. i \in 1 .. n \/ i = n + 1
    BY <1>1
  <2> QED
    BY <1>1, <1>2, <1>3, <2>2
<1>5. open \subseteq CommandIds
  BY DEF TypeInv, TypeOK
<1> QED
  BY <1>1, <1>4, <1>5

\* The codes of the lower layer.
LEMMA LowCodes ==
  ASSUME NEW s, \A i \in 1 .. Len(s) : LowReq(s[i]), IsSeq(s)
  PROVE  \A i \in DOMAIN s : s[i].code \in Codes \ {"READ", "WRITE"}
<1>1. SUFFICES ASSUME NEW i \in 1 .. Len(s) PROVE s[i].code \in Codes \ {"READ", "WRITE"}
  BY SeqSizes
<1>2. LowReq(s[i])
  BY <1>1
<1> QED
  BY <1>2 DEF LowReq, IsNandReq, IsDmaReq, Codes

\* The NAND requests.
LEMMA NandReqIsLow ==
  ASSUME NEW code \in {"PROGRAM", "FETCH"}, NEW e \in Entry, NEW p \in Pages
  PROVE  LowReq(NandReq(code, e, p)) /\ NandReq(code, e, p).got = <<>>
<1>1. PICK q : q = NandReq(code, e, p)
  OBVIOUS
<1>2. IsReq(q) /\ q.code = code /\ q.entry = e /\ q.page = p /\ q.got = <<>> /\ q.cqEn = FALSE
  BY <1>1 DEF NandReq, IsReq, Codes
<1>3. IsNandReq(q)
  BY <1>2 DEF IsNandReq
<1> QED
  BY <1>1, <1>2, <1>3 DEF LowReq

\* A page is looked for only where a slot is free.
LEMMA RoomForPage ==
  ASSUME TypeInv, Busy, FreeSlots(1)
  PROVE  Len(lowReqs) < Slots
<1>1. /\ Len(lowReqs) \in Nat /\ Len(sliceReqQ) \in Nat /\ Slots \in Nat
  BY Types, PagesAssumption
<1>2. req # NoReq
  BY InHandIs
<1> QED
  BY <1>1, <1>2 DEF FreeSlots, InHand

LEMMA MissTypes ==
  ASSUME TypeInv, NEW e \in Entry, Miss(e)
  PROVE  TypeInv'
<1>1. /\ pc = "find" /\ (dirty[e] => FreeSlots(1)) /\ Reuse(e, req.lsa) /\ entry' = e
      /\ UNCHANGED <<cmd, sent, sliceReqQ, req, nand, disk>>
  BY DEF Miss, MustWriteBack
<1>2. Busy /\ req.lsa \in LSAs /\ req.lsa \in Nat /\ req # NoReq
  BY <1>1, InHandIs DEF Busy
<1>3. DataBufTypeOK' /\ ListsAgree'
  BY <1>1, <1>2, Types, ReuseKeepsDirectory
<1>4. lsaOf' = [lsaOf EXCEPT ![e] = req.lsa] /\ dirty' = [dirty EXCEPT ![e] = FALSE]
  BY <1>1 DEF Reuse
<1>5. DirectoryOK'
  <2>1. \A f \in Entry : lsaOf'[f] = (IF f = e THEN req.lsa ELSE lsaOf[f])
                         /\ dirty'[f] = (IF f = e THEN FALSE ELSE dirty[f])
    BY <1>4, Types
  <2>2. DirectoryOK
    BY Types
  <2> QED
    BY <1>2, <2>1, <2>2 DEF DirectoryOK, Holds
<1>6. /\ pc' = "fetch" /\ map' \in [LSAs -> Pages \cup {NoPage}]
      /\ IsSeq(lowReqs') /\ Len(lowReqs') \in Nat
      /\ \A i \in 1 .. Len(lowReqs') : LowReq(lowReqs'[i])
      /\ data' \in [Entry -> Content] /\ open' \subseteq CommandIds /\ InHand' <= Slots
  <2>1. CASE dirty[e]
    <3>1. /\ map' = [map EXCEPT ![lsaOf[e]] = FreePage]
          /\ Select(NandReq("PROGRAM", e, FreePage), "fetch")
      BY <2>1 DEF Miss, MustWriteBack
    <3>2. FreePage \in Pages
      <4>1. Len(lowReqs) < Slots
        BY <1>1, <1>2, <2>1, RoomForPage
      <4>2. map \in [LSAs -> Pages \cup {NoPage}] /\ IsSeq(lowReqs)
        BY Types DEF LowReqsOK
      <4> QED
        BY <4>1, <4>2, FreePageIs
    <3>3. lsaOf[e] \in LSAs
      BY <2>1, Types DEF DirectoryOK, Holds
    <3>4. map' \in [LSAs -> Pages \cup {NoPage}]
      BY <3>1, <3>2, <3>3, Types
    <3>5. PICK r : r = NandReq("PROGRAM", e, FreePage)
      OBVIOUS
    <3>6. LowReq(r) /\ r.got = <<>>
      BY <3>2, <3>5, NandReqIsLow
    <3>7. /\ pc' = "fetch" /\ IsSeq(lowReqs') /\ Len(lowReqs') = Len(lowReqs) + 1
          /\ \A i \in 1 .. Len(lowReqs') : LowReq(lowReqs'[i])
          /\ data' \in [Entry -> Content] /\ open' \subseteq CommandIds
      BY <3>1, <3>5, <3>6, SelectTypes
    <3>8. InHand' <= Slots
      <4>1. Len(lowReqs) \in Nat /\ Len(sliceReqQ) \in Nat /\ Slots \in Nat
        BY Types, PagesAssumption
      <4>2. Len(sliceReqQ) + Len(lowReqs) + 1 + 1 <= Slots
        BY <1>1, <1>2, <2>1 DEF FreeSlots, InHand
      <4>3. InHand' = Len(sliceReqQ) + (Len(lowReqs) + 1) + 1
        BY <1>1, <1>2, <3>7 DEF InHand
      <4> QED
        BY <4>1, <4>2, <4>3
    <3> QED
      BY <3>4, <3>7, <3>8, Types
  <2>2. CASE ~ dirty[e]
    <3>1. pc' = "fetch" /\ UNCHANGED <<map, lowReqs, data, open>>
      BY <2>2 DEF Miss, MustWriteBack
    <3>2. InHand' = InHand
      BY <1>1, <3>1 DEF InHand
    <3> QED
      BY <3>1, <3>2, Types DEF TypeInv, TypeOK, LowReqsOK
  <2> QED
    BY <2>1, <2>2
<1>7. TypeOK'
  <2>1. \A i \in DOMAIN lowReqs' : lowReqs'[i].code \in Codes \ {"READ", "WRITE"}
    BY <1>6, LowCodes
  <2>2. /\ (cmd = NoReq <=> pc = "idle") /\ (req = NoReq \/ req.code \in {"READ", "WRITE"})
        /\ sent \in 0 .. MaxCommands /\ nand \in [Pages -> Content] /\ disk \in [LBAs -> Val \cup {NONE}]
    BY Types DEF TypeInv, TypeOK
  <2> QED
    BY <1>1, <1>3, <1>6, <2>1, <2>2 DEF TypeOK, Content
<1>8. QueueOK'
  <2>1. lsaOf'[entry'] = req.lsa /\ ~ dirty'[entry']
    BY <1>1, <1>4, Types
  <2>2. pc # "idle" /\ pc' # "idle" /\ Busy'
    BY <1>1, <1>6 DEF Busy
  <2> QED
    BY <1>1, <1>2, <2>1, <2>2, QueueStays
<1>9. LowReqsOK'
  BY <1>1, <1>6, Types DEF LowReqsOK
<1> QED
  BY <1>3, <1>5, <1>7, <1>8, <1>9 DEF TypeInv

LEMMA DataReadFromNandTypes ==
  ASSUME TypeInv, DataReadFromNand
  PROVE  TypeInv'
<1>1. pc = "fetch" /\ UNCHANGED <<cmd, sent, sliceReqQ, req, entry, map, nand, disk, lsaOf, dirty, lru, hash>>
  BY DEF DataReadFromNand, dataBufVars
<1>2. Busy /\ req.lsa \in LSAs /\ req # NoReq
  BY <1>1, InHandIs DEF Busy
<1>3. DataBufTypeOK' /\ ListsAgree' /\ DirectoryOK'
  <2>1. dirty' \in [Entry -> BOOLEAN]
    BY <1>1, Types
  <2>2. DataBufTypeOK' /\ ListsAgree'
    BY <1>1, <2>1, SameDirectory, Types
  <2> QED
    BY <1>1, <2>2, Types DEF DirectoryOK, Holds
<1>4. /\ pc' = "dma" /\ IsSeq(lowReqs') /\ Len(lowReqs') \in Nat
      /\ \A i \in 1 .. Len(lowReqs') : LowReq(lowReqs'[i])
      /\ data' \in [Entry -> Content] /\ open' \subseteq CommandIds /\ InHand' <= Slots
  <2>1. CASE NeedsRead /\ map[req.lsa] # NoPage
    <3>1. FreeSlots(1) /\ Select(NandReq("FETCH", entry, map[req.lsa]), "dma")
      BY <2>1 DEF DataReadFromNand
    <3>2. map[req.lsa] \in Pages
      BY <1>2, <2>1, Types
    <3>3. PICK r : r = NandReq("FETCH", entry, map[req.lsa])
      OBVIOUS
    <3>4. LowReq(r) /\ r.got = <<>>
      BY <3>2, <3>3, NandReqIsLow, Types
    <3>5. /\ pc' = "dma" /\ IsSeq(lowReqs') /\ Len(lowReqs') = Len(lowReqs) + 1
          /\ \A i \in 1 .. Len(lowReqs') : LowReq(lowReqs'[i])
          /\ data' \in [Entry -> Content] /\ open' \subseteq CommandIds
      BY <3>1, <3>3, <3>4, SelectTypes
    <3>6. InHand' <= Slots
      <4>1. Len(lowReqs) \in Nat /\ Len(sliceReqQ) \in Nat /\ Slots \in Nat
        BY Types, PagesAssumption
      <4>2. Len(sliceReqQ) + Len(lowReqs) + 1 + 1 <= Slots
        BY <1>2, <3>1 DEF FreeSlots, InHand
      <4>3. InHand' = Len(sliceReqQ) + (Len(lowReqs) + 1) + 1
        BY <1>1, <1>2, <3>5 DEF InHand
      <4> QED
        BY <4>1, <4>2, <4>3
    <3> QED
      BY <3>5, <3>6, Types
  <2>2. CASE ~ (NeedsRead /\ map[req.lsa] # NoPage)
    <3>1. pc' = "dma" /\ UNCHANGED <<lowReqs, data, open>>
      BY <2>2 DEF DataReadFromNand
    <3>2. InHand' = InHand
      BY <1>1, <3>1 DEF InHand
    <3> QED
      BY <3>1, <3>2, Types DEF TypeInv, TypeOK, LowReqsOK
  <2> QED
    BY <2>1, <2>2
<1>5. TypeOK'
  <2>1. \A i \in DOMAIN lowReqs' : lowReqs'[i].code \in Codes \ {"READ", "WRITE"}
    BY <1>4, LowCodes
  <2>2. /\ (cmd = NoReq <=> pc = "idle") /\ (req = NoReq \/ req.code \in {"READ", "WRITE"})
        /\ sent \in 0 .. MaxCommands /\ nand \in [Pages -> Content] /\ disk \in [LBAs -> Val \cup {NONE}]
        /\ map \in [LSAs -> Pages \cup {NoPage}] /\ entry \in Entry
    BY Types DEF TypeInv, TypeOK
  <2> QED
    BY <1>1, <1>3, <1>4, <2>1, <2>2 DEF TypeOK, Content
<1>6. QueueOK'
  <2>1. lsaOf'[entry'] = req.lsa
    BY <1>1, Types DEF QueueOK
  <2>2. pc # "idle" /\ pc' # "idle" /\ Busy' /\ pc' # "fetch"
    BY <1>1, <1>4 DEF Busy
  <2> QED
    BY <1>1, <1>2, <2>1, <2>2, QueueStays
<1>7. LowReqsOK'
  BY <1>1, <1>4, Types DEF LowReqsOK
<1> QED
  BY <1>3, <1>5, <1>6, <1>7 DEF TypeInv

\* The DMA request of the slice in hand.
LEMMA DmaOfReq ==
  ASSUME TypeInv, Busy, NEW e \in Entry
  PROVE  /\ LowReq(DmaOf(req, e)) /\ DmaOf(req, e).got = <<>>
         /\ OfSlice(DmaOf(req, e), cmd, SliceCount(cmd) - Len(sliceReqQ))
<1> DEFINE k == SliceCount(cmd) - Len(sliceReqQ)
<1>1. NextSlice(k) /\ req.code \in {"READ", "WRITE"} /\ req.code = cmd.op
  BY InHandIs
<1>2. cmd \in Commands /\ k \in 1 .. SliceCount(cmd) /\ IsSliceReq(req, cmd, k) /\ IsReq(req)
  BY <1>1 DEF NextSlice
<1> HIDE DEF k
<1>3. OfSlice(req, cmd, k) /\ req.got = <<>>
  BY <1>2 DEF IsSliceReq
<1>4. PICK q : q = DmaOf(req, e)
  OBVIOUS
<1>5. /\ IsReq(q) /\ q.code = IF req.code = "WRITE" THEN "RxDMA" ELSE "TxDMA"
      /\ q.id = req.id /\ q.val = req.val /\ q.cqEn = req.cqEn /\ q.lsa = req.lsa
      /\ q.num = req.num /\ q.moves = req.moves /\ q.expect = req.expect /\ q.entry = e
      /\ q.page = req.page /\ q.got = req.got
  BY <1>2, <1>4, DmaOfIs
<1>6. OfSlice(q, cmd, k)
  BY <1>3, <1>5 DEF OfSlice
<1>7. IsDmaReq(q)
  BY <1>1, <1>2, <1>5, <1>6 DEF IsDmaReq
<1> QED
  BY <1>3, <1>4, <1>5, <1>6, <1>7 DEF LowReq, k

LEMMA SliceToDmaTypes ==
  ASSUME TypeInv, SliceToDma
  PROVE  TypeInv'
<1>1. /\ pc = "dma" /\ dirty' = [dirty EXCEPT ![entry] = @ \/ Dirtied]
      /\ Select(DmaOf(req, entry), "slices") /\ req' = NoReq /\ entry' = 0
      /\ UNCHANGED <<cmd, sent, sliceReqQ, map, nand, disk, lsaOf, lru, hash>>
  BY Zenon DEF SliceToDma, DmaOf
<1>2. Busy /\ req.lsa \in LSAs /\ req # NoReq
  BY <1>1, InHandIs DEF Busy
<1>3. DataBufTypeOK' /\ ListsAgree'
  <2>1. dirty' \in [Entry -> BOOLEAN]
    BY <1>1, Types DEF Dirtied
  <2> QED
    BY <1>1, <2>1, SameDirectory, Types
<1>4. DirectoryOK'
  <2>1. \A f \in Entry : f # entry => dirty'[f] = dirty[f]
    BY <1>1, Types
  <2>2. lsaOf[entry] # LSA_NONE
    <3>1. lsaOf[entry] = req.lsa /\ req.lsa \in Nat
      BY <1>1, <1>2, InHandIs, Types DEF QueueOK
    <3> QED
      BY <3>1 DEF LSA_NONE
  <2>3. DirectoryOK
    BY Types
  <2> QED
    BY <1>1, <2>1, <2>2, <2>3 DEF DirectoryOK, Holds
<1>5. /\ pc' = "slices" /\ IsSeq(lowReqs') /\ Len(lowReqs') = Len(lowReqs) + 1
      /\ \A i \in 1 .. Len(lowReqs') : LowReq(lowReqs'[i])
      /\ data' \in [Entry -> Content] /\ open' \subseteq CommandIds
  <2>1. PICK r : r = DmaOf(req, entry)
    OBVIOUS
  <2>2. LowReq(r) /\ r.got = <<>>
    BY <1>2, <2>1, DmaOfReq, Types
  <2> QED
    BY <1>1, <2>1, <2>2, SelectTypes
<1>6. InHand' <= Slots
  <2>1. Len(lowReqs) \in Nat /\ Len(sliceReqQ) \in Nat /\ Slots \in Nat
    BY Types, PagesAssumption
  <2>2. Len(sliceReqQ) + Len(lowReqs) + 1 <= Slots
    BY <1>2 DEF TypeInv, TypeOK, InHand
  <2>3. InHand' = Len(sliceReqQ) + (Len(lowReqs) + 1) + 0
    BY <1>1, <1>5 DEF InHand
  <2> QED
    BY <2>1, <2>2, <2>3
<1>7. TypeOK'
  <2>1. \A i \in DOMAIN lowReqs' : lowReqs'[i].code \in Codes \ {"READ", "WRITE"}
    BY <1>5, LowCodes
  <2>2. /\ (cmd = NoReq <=> pc = "idle") /\ map \in [LSAs -> Pages \cup {NoPage}]
        /\ sent \in 0 .. MaxCommands /\ nand \in [Pages -> Content] /\ disk \in [LBAs -> Val \cup {NONE}]
    BY Types DEF TypeInv, TypeOK
  <2>3. 0 \in Entry
    BY EntryCountAssumption DEF Entry
  <2> QED
    BY <1>1, <1>3, <1>5, <1>6, <2>1, <2>2, <2>3 DEF TypeOK, Content
<1>8. QueueOK'
  <2>1. /\ QueueOK /\ ~ Busy' /\ pc' # "idle" /\ pc # "idle" /\ pc' \notin {"fetch", "dma"}
    BY <1>1, <1>5, Types DEF Busy
  <2>2. \A r, c, k : IsSliceReq(r, c, k)' <=> IsSliceReq(r, c, k)
    BY <1>1 DEF IsSliceReq, Expected
  <2> QED
    BY <1>1, <2>1, <2>2 DEF QueueOK
<1>9. LowReqsOK'
  BY <1>1, <1>5, Types DEF LowReqsOK
<1> QED
  BY <1>3, <1>4, <1>7, <1>8, <1>9 DEF TypeInv

\* A request has one successor.
LEMMA AdjacentIsOne ==
  ASSUME NEW n \in Nat, NEW i \in 1 .. n, NEW j \in 1 .. n, NEW k \in 1 .. n, Adjacent(i, j), Adjacent(i, k)
  PROVE  j = k
<1>1. /\ i < j /\ lowReqs[i].entry = lowReqs[j].entry
      /\ \A m \in i + 1 .. j - 1 : lowReqs[m].entry # lowReqs[i].entry
      /\ i < k /\ lowReqs[i].entry = lowReqs[k].entry
      /\ \A m \in i + 1 .. k - 1 : lowReqs[m].entry # lowReqs[i].entry
  BY DEF Adjacent
<1>2. ~ j < k
  <2>1. j < k => j \in i + 1 .. k - 1
    BY <1>1
  <2> QED
    BY <1>1, <2>1
<1>3. ~ k < j
  <2>1. k < j => k \in i + 1 .. j - 1
    BY <1>1
  <2> QED
    BY <1>1, <2>1
<1> QED
  BY <1>2, <1>3

\* What the end of a request does.
LEMMA EndIs ==
  ASSUME TypeInv, NEW i \in 1 .. Len(lowReqs), EndRequest(i), NEW d, d = EntryAfter(lowReqs[i])
  PROVE  /\ pc = "idle" \/ WantsSlot
         /\ First(lowReqs, i)
         /\ lowReqs[i].code = "FETCH" => Programmed(lowReqs, lowReqs[i].page)
         /\ d \in Content
         /\ IsSeq(lowReqs') /\ Len(lowReqs) \in Nat \ {0} /\ Len(lowReqs') = Len(lowReqs) - 1
         /\ \A j \in 1 .. Len(lowReqs) - 1 :
              /\ After(j, i) \in 1 .. Len(lowReqs) /\ After(j, i) # i
              /\ SameButGot(lowReqs'[j], lowReqs[After(j, i)])
              /\ lowReqs'[j].got = IF Adjacent(i, After(j, i)) /\ lowReqs[After(j, i)].code = "TxDMA"
                                   THEN Got(lowReqs[After(j, i)], d) ELSE lowReqs[After(j, i)].got
         /\ data' \in [Entry -> Content] /\ lowReqs[i].entry \in Entry
         /\ \A e \in Entry : e # lowReqs[i].entry => data'[e] = data[e]
         /\ \A j \in 1 .. Len(lowReqs) : Adjacent(i, j) => data'[lowReqs[i].entry] = Received(lowReqs[j], d)
         /\ LastOf(i) => data'[lowReqs[i].entry] = d
         /\ \A id : id \in open' <=> /\ id \in open
                                     /\ \A j \in 1 .. Len(lowReqs) :
                                          Adjacent(i, j) /\ lowReqs[j].cqEn => lowReqs[j].id # id
         /\ nand' \in [Pages -> Content]
         /\ \A p \in Pages : nand'[p] = IF (\E l \in LSAs : map[l] = p)
                                             \/ (\E j \in 1 .. Len(lowReqs) - 1 : lowReqs'[j].page = p)
                                        THEN IF lowReqs[i].code = "PROGRAM" /\ p = lowReqs[i].page
                                             THEN data[lowReqs[i].entry] ELSE nand[p]
                                        ELSE Nothing
         /\ UNCHANGED <<pc, cmd, sent, sliceReqQ, req, entry, map, disk, lsaOf, dirty, lru, hash>>
<1> DEFINE r == lowReqs[i]
           n == Len(lowReqs)
           next == {j \in Successor(i) : Released(j)}
           now == [k \in DOMAIN lowReqs |-> IF k \in next THEN Sent(lowReqs[k], d) ELSE lowReqs[k]]
<1>1. /\ pc = "idle" \/ WantsSlot
      /\ CanEnd(i)
      /\ lowReqs' = RemoveAt(now, i)
      /\ data' = [data EXCEPT ![r.entry] =
                    IF next = {} THEN d ELSE Received(lowReqs[CHOOSE j \in next : TRUE], d)]
      /\ open' = open \ {lowReqs[k].id : k \in {j \in next : lowReqs[j].cqEn}}
      /\ nand' = [p \in Pages |->
                    IF (\E l \in LSAs : map[l] = p) \/ (\E k \in DOMAIN lowReqs' : lowReqs'[k].page = p)
                    THEN FlashAfter(r)[p] ELSE Nothing]
      /\ UNCHANGED <<pc, cmd, sent, sliceReqQ, req, entry, map, disk, lsaOf, dirty, lru, hash>>
  BY Zenon DEF EndRequest, dataBufVars
<1>2. /\ First(lowReqs, i)
      /\ r.code = "FETCH" => Programmed(lowReqs, r.page)
  BY <1>1 DEF CanEnd
<1>3. IsSeq(lowReqs) /\ n \in Nat /\ DOMAIN lowReqs = 1 .. n /\ \A j \in 1 .. n : LowReq(lowReqs[j])
  BY Types DEF LowReqsOK
<1>4. \A j \in 1 .. n : j \in Successor(i) <=> Adjacent(i, j)
  BY <1>3 DEF Successor, Adjacent
<1>5. \A j : j \in Successor(i) => j \in 1 .. n
  BY <1>3 DEF Successor
<1>6. \A j \in 1 .. n : j \in next <=> Adjacent(i, j) /\ IsDma(lowReqs[j])
  BY <1>4 DEF Released
<1>7. \A j : j \in next => j \in 1 .. n
  BY <1>5
<1> HIDE DEF next
<1>8. LowReq(r) /\ r.entry \in Entry
  BY <1>3 DEF LowReq
<1>9. d \in Content
  <2>1. data[r.entry] \in Content /\ (r.code = "FETCH" => nand[r.page] \in Content)
    BY <1>8, Types, ReceivedVal DEF IsDma
  <2> QED
    BY <2>1 DEF EntryAfter
<1>10. now = [k \in 1 .. n |-> IF k \in next THEN Sent(lowReqs[k], d) ELSE lowReqs[k]]
  BY <1>3
<1>11. /\ IsSeq(now) /\ Len(now) = n
       /\ \A k \in 1 .. n : now[k] = IF k \in next THEN Sent(lowReqs[k], d) ELSE lowReqs[k]
  <2>1. \A k \in 1 .. n : now[k] = IF k \in next THEN Sent(lowReqs[k], d) ELSE lowReqs[k]
    BY <1>3
  <2>2. now = [k \in 1 .. n |-> now[k]]
    BY <1>3
  <2> HIDE DEF now
  <2> QED
    BY <1>3, <2>1, <2>2, SeqOfIs
<1> HIDE DEF now
<1>12. \A k \in 1 .. n : /\ SameButGot(now[k], lowReqs[k])
                         /\ now[k].got = IF Adjacent(i, k) /\ lowReqs[k].code = "TxDMA"
                                         THEN Got(lowReqs[k], d) ELSE lowReqs[k].got
  <2>1. SUFFICES ASSUME NEW k \in 1 .. n
                 PROVE  /\ SameButGot(now[k], lowReqs[k])
                        /\ now[k].got = IF Adjacent(i, k) /\ lowReqs[k].code = "TxDMA"
                                         THEN Got(lowReqs[k], d) ELSE lowReqs[k].got
    OBVIOUS
  <2>2. IsReq(lowReqs[k])
    BY <1>3 DEF LowReq
  <2>3. /\ SameButGot(Sent(lowReqs[k], d), lowReqs[k])
        /\ Sent(lowReqs[k], d).got = IF lowReqs[k].code = "TxDMA" THEN Got(lowReqs[k], d) ELSE lowReqs[k].got
    BY <2>2, SentIs
  <2>4. SameButGot(lowReqs[k], lowReqs[k])
    BY <2>2 DEF SameButGot
  <2>5. lowReqs[k].code = "TxDMA" => IsDma(lowReqs[k])
    BY DEF IsDma
  <2> QED
    BY <1>6, <1>11, <2>3, <2>4, <2>5
<1>13. /\ IsSeq(lowReqs') /\ Len(lowReqs') = n - 1
       /\ \A j \in 1 .. n - 1 : lowReqs'[j] = now[After(j, i)]
  <2>1. now \in Seq(ToSet(now))
    BY <1>11 DEF IsSeq
  <2>2. i \in 1 .. Len(now)
    BY <1>11
  <2>3. /\ RemoveAt(now, i) \in Seq(ToSet(now)) /\ Len(RemoveAt(now, i)) = Len(now) - 1
        /\ \A j \in 1 .. Len(now) - 1 : RemoveAt(now, i)[j] = now[After(j, i)]
    BY <2>1, <2>2, RemoveAtIs
  <2> QED
    BY <1>1, <1>11, <2>3, IsSeqIs
<1>14. \A j \in 1 .. n - 1 : After(j, i) \in 1 .. n /\ After(j, i) # i
  BY <1>3 DEF After
<1>15. \A j \in 1 .. n - 1 :
         /\ SameButGot(lowReqs'[j], lowReqs[After(j, i)])
         /\ lowReqs'[j].got = IF Adjacent(i, After(j, i)) /\ lowReqs[After(j, i)].code = "TxDMA"
                              THEN Got(lowReqs[After(j, i)], d) ELSE lowReqs[After(j, i)].got
  BY <1>12, <1>13, <1>14
<1>16. \A j \in 1 .. n : Received(lowReqs[j], d) \in Content /\ (~ IsDma(lowReqs[j]) => Received(lowReqs[j], d) = d)
  <2>1. SUFFICES ASSUME NEW j \in 1 .. n
                 PROVE  Received(lowReqs[j], d) \in Content /\ (~ IsDma(lowReqs[j]) => Received(lowReqs[j], d) = d)
    OBVIOUS
  <2>2. LowReq(lowReqs[j])
    BY <1>3
  <2>3. Received(lowReqs[j], d) \in Content
    BY <1>9, <2>2, ReceivedVal, ReceivedIs
  <2> QED
    BY <2>3 DEF Received, IsDma
<1>17. /\ data' \in [Entry -> Content]
       /\ \A e \in Entry : e # r.entry => data'[e] = data[e]
       /\ \A j \in 1 .. n : Adjacent(i, j) => data'[r.entry] = Received(lowReqs[j], d)
       /\ LastOf(i) => data'[r.entry] = d
  <2>1. PICK x : x = IF next = {} THEN d ELSE Received(lowReqs[CHOOSE j \in next : TRUE], d)
    OBVIOUS
  <2>2. data' = [data EXCEPT ![r.entry] = x]
    BY <1>1, <2>1
  <2>3. ASSUME next # {}
        PROVE  \E j \in 1 .. n : j \in next /\ x = Received(lowReqs[j], d)
    <3>1. PICK j : j = CHOOSE m \in next : TRUE
      OBVIOUS
    <3>2. j \in next
      BY <2>3, <3>1
    <3> QED
      BY <2>1, <2>3, <3>1, <3>2, <1>7
  <2>4. x \in Content
    <3>1. CASE next = {}
      BY <3>1, <2>1, <1>9
    <3>2. CASE next # {}
      BY <3>2, <2>3, <1>16
    <3> QED
      BY <3>1, <3>2
  <2>5. data' \in [Entry -> Content] /\ data'[r.entry] = x /\ \A e \in Entry : e # r.entry => data'[e] = data[e]
    <3>1. data \in [Entry -> Content]
      BY Types
    <3> QED
      BY <1>8, <2>2, <2>4, <3>1
  <2>6. ASSUME NEW j \in 1 .. n, Adjacent(i, j)
        PROVE  x = Received(lowReqs[j], d)
    <3>1. CASE next = {}
      <4>1. ~ IsDma(lowReqs[j])
        BY <3>1, <2>6, <1>6
      <4> QED
        BY <3>1, <4>1, <2>1, <1>16
    <3>2. CASE next # {}
      <4>1. PICK k \in 1 .. n : k \in next /\ x = Received(lowReqs[k], d)
        BY <3>2, <2>3
      <4>2. Adjacent(i, k)
        BY <4>1, <1>6
      <4>3. k = j
        BY <1>3, <2>6, <4>2, AdjacentIsOne
      <4> QED
        BY <4>1, <4>3
    <3> QED
      BY <3>1, <3>2
  <2>7. ASSUME LastOf(i)
        PROVE  x = d
    <3>1. \A j \in 1 .. n : ~ Adjacent(i, j)
      <4>1. SUFFICES ASSUME NEW j \in 1 .. n, Adjacent(i, j) PROVE FALSE
        OBVIOUS
      <4>2. j \in i + 1 .. Len(lowReqs) /\ lowReqs[j].entry = lowReqs[i].entry
        BY <1>3, <4>1 DEF Adjacent
      <4> QED
        BY <2>7, <4>2 DEF LastOf
    <3>2. next = {}
      BY <3>1, <1>6, <1>7
    <3> QED
      BY <3>2, <2>1
  <2> QED
    BY <2>5, <2>6, <2>7
<1>18. \A id : id \in open' <=> /\ id \in open
                                /\ \A j \in 1 .. n : Adjacent(i, j) /\ lowReqs[j].cqEn => lowReqs[j].id # id
  <2>1. \A j \in 1 .. n : lowReqs[j].cqEn => IsDma(lowReqs[j])
    BY <1>3, ReceivedVal
  <2>2. \A id : id \in open' <=> id \in open /\ \A j \in next : lowReqs[j].cqEn => lowReqs[j].id # id
    BY <1>1
  <2> QED
    BY <1>6, <1>7, <2>1, <2>2
<1>19. /\ nand' \in [Pages -> Content]
       /\ \A p \in Pages : nand'[p] = IF (\E l \in LSAs : map[l] = p)
                                             \/ (\E j \in 1 .. n - 1 : lowReqs'[j].page = p)
                                      THEN IF r.code = "PROGRAM" /\ p = r.page
                                           THEN data[r.entry] ELSE nand[p]
                                      ELSE Nothing
  <2>1. DOMAIN lowReqs' = 1 .. n - 1
    BY <1>13, SeqSizes
  <2>2. PICK f : f = FlashAfter(r)
    OBVIOUS
  <2>3. f \in [Pages -> Content] /\ \A p \in Pages : f[p] = IF r.code = "PROGRAM" /\ p = r.page
                                                             THEN data[r.entry] ELSE nand[p]
    <3>1. nand \in [Pages -> Content] /\ data[r.entry] \in Content
      BY <1>8, Types
    <3>2. CASE r.code = "PROGRAM"
      <4>1. f = [nand EXCEPT ![r.page] = data[r.entry]]
        BY <2>2, <3>2 DEF FlashAfter
      <4> QED
        BY <3>1, <3>2, <4>1
    <3>3. CASE r.code # "PROGRAM"
      BY <2>2, <3>1, <3>3 DEF FlashAfter
    <3> QED
      BY <3>2, <3>3
  <2>4. Nothing \in Content
    BY DEF Nothing, Content
  <2>5. nand' = [p \in Pages |->
                   IF (\E l \in LSAs : map[l] = p) \/ (\E k \in 1 .. n - 1 : lowReqs'[k].page = p)
                   THEN f[p] ELSE Nothing]
    BY <1>1, <2>1, <2>2
  <2> QED
    BY <2>3, <2>4, <2>5
<1> QED
  BY <1>1, <1>2, <1>3, <1>8, <1>9, <1>13, <1>14, <1>15, <1>17, <1>18, <1>19

LEMMA EndRequestTypes ==
  ASSUME TypeInv, NEW i \in 1 .. Len(lowReqs), EndRequest(i)
  PROVE  TypeInv'
<1> DEFINE n == Len(lowReqs)
<1>1. /\ pc = "idle" \/ WantsSlot
      /\ IsSeq(lowReqs') /\ n \in Nat \ {0} /\ Len(lowReqs') = n - 1
      /\ \A j \in 1 .. n - 1 :
           /\ After(j, i) \in 1 .. n
           /\ SameButGot(lowReqs'[j], lowReqs[After(j, i)])
           /\ lowReqs[After(j, i)].code # "TxDMA" => lowReqs'[j].got = lowReqs[After(j, i)].got
      /\ data' \in [Entry -> Content] /\ nand' \in [Pages -> Content]
      /\ \A id : id \in open' => id \in open
      /\ UNCHANGED <<pc, cmd, sent, sliceReqQ, req, entry, map, disk, lsaOf, dirty, lru, hash>>
  BY EndIs
<1>2. \A j \in 1 .. Len(lowReqs') : LowReq(lowReqs'[j])
  <2>1. SUFFICES ASSUME NEW j \in 1 .. n - 1 PROVE LowReq(lowReqs'[j])
    BY <1>1
  <2>2. LowReq(lowReqs[After(j, i)])
    BY <1>1, Types DEF LowReqsOK
  <2>3. lowReqs[After(j, i)].code # "TxDMA" => lowReqs'[j].got = <<>>
    BY <1>1, <2>2 DEF LowReq
  <2> QED
    BY <1>1, <2>2, <2>3, LowReqStays
<1>3. DataBufTypeOK' /\ ListsAgree' /\ DirectoryOK'
  <2>1. dirty' \in [Entry -> BOOLEAN]
    BY <1>1, Types
  <2>2. DataBufTypeOK' /\ ListsAgree'
    BY <1>1, <2>1, SameDirectory, Types
  <2> QED
    BY <1>1, <2>2, Types DEF DirectoryOK, Holds
<1>4. InHand' <= Slots
  <2>1. Len(sliceReqQ') + Len(lowReqs') <= Len(sliceReqQ) + Len(lowReqs) /\ Len(lowReqs') \in Nat
        /\ Len(sliceReqQ') \in Nat /\ (req' = NoReq \/ req # NoReq)
    BY <1>1, Types
  <2> QED
    BY <2>1, InHandStays
<1>5. TypeOK'
  <2>1. \A j \in DOMAIN lowReqs' : lowReqs'[j].code \in Codes \ {"READ", "WRITE"}
    BY <1>1, <1>2, LowCodes
  <2>2. open' \subseteq CommandIds
    BY <1>1 DEF TypeInv, TypeOK
  <2>3. /\ (cmd = NoReq <=> pc = "idle") /\ map \in [LSAs -> Pages \cup {NoPage}]
        /\ (req = NoReq \/ req.code \in {"READ", "WRITE"}) /\ entry \in Entry
        /\ sent \in 0 .. MaxCommands /\ disk \in [LBAs -> Val \cup {NONE}]
        /\ pc \in {"idle", "slices", "find", "fetch", "dma"}
    BY DEF TypeInv, TypeOK
  <2> QED
    BY <1>1, <1>3, <1>4, <2>1, <2>2, <2>3 DEF TypeOK, Content
<1>6. QueueOK'
  <2>1. \A r, c, k : IsSliceReq(r, c, k)' <=> IsSliceReq(r, c, k)
    BY <1>1 DEF IsSliceReq, Expected
  <2>2. QueueOK
    BY Types
  <2> QED
    BY <1>1, <2>1, <2>2 DEF QueueOK, Busy
<1>7. LowReqsOK'
  BY <1>1, <1>2, Types DEF LowReqsOK
<1> QED
  BY <1>3, <1>5, <1>6, <1>7 DEF TypeInv

-----------------------------------------------------------------------------
\* Every step is one of the actions, or changes nothing.
LEMMA Steps ==
  ASSUME TypeInv, [Next]_vars
  PROVE  \/ UNCHANGED vars
         \/ SliceReqQEmpty \/ GetFromSliceReqQ \/ DataReadFromNand \/ SliceToDma
         \/ \E e \in Entry : Hit(e)
         \/ \E e \in Entry : Miss(e)
         \/ \E i \in 1 .. Len(lowReqs) : EndRequest(i)
         \/ \E c \in Commands : TakeCommand(c)
<1>1. DOMAIN lowReqs = 1 .. Len(lowReqs)
  BY Types
<1> QED
  BY <1>1 DEF Next, Translate, HostStops, Commands

LEMMA StutterTypes ==
  ASSUME TypeInv, UNCHANGED vars
  PROVE  TypeInv'
<1>1. UNCHANGED <<pc, cmd, sent, sliceReqQ, req, entry, lowReqs, map, data, nand, open, disk,
                  lsaOf, dirty, lru, hash>>
  BY DEF vars, deviceVars, dataBufVars
<1>2. DataBufTypeOK' /\ ListsAgree' /\ DirectoryOK'
  <2>1. dirty' \in [Entry -> BOOLEAN]
    BY <1>1, Types
  <2>2. DataBufTypeOK' /\ ListsAgree'
    BY <1>1, <2>1, SameDirectory, Types
  <2> QED
    BY <1>1, <2>2, Types DEF DirectoryOK, Holds
<1>3. TypeOK'
  BY <1>1, <1>2 DEF TypeInv, TypeOK, InHand
<1>4. QueueOK'
  <2>1. \A r, c, k : IsSliceReq(r, c, k)' <=> IsSliceReq(r, c, k)
    BY <1>1 DEF IsSliceReq, Expected
  <2> QED
    BY <1>1, <2>1, Types DEF QueueOK, Busy
<1>5. LowReqsOK'
  BY <1>1, Types DEF LowReqsOK
<1> QED
  BY <1>2, <1>3, <1>4, <1>5 DEF TypeInv

\* The types, as an invariant.
LEMMA TypesAlways == Spec => []TypeInv
<1>1. Init => TypeInv
  BY InitTypes
<1>2. TypeInv /\ [Next]_vars => TypeInv'
  BY Steps, StutterTypes, SliceReqQEmptyTypes, GetFromSliceReqQTypes, DataReadFromNandTypes,
     SliceToDmaTypes, HitTypes, MissTypes, EndRequestTypes, TakeCommandTypes
<1> QED
  BY <1>1, <1>2, PTL DEF Spec

\* Every variable of the device keeps its type: the pool never has more requests
\* in hand than slots, the lower layer has only requests of its own kind, and a
\* page is found for every write-back.
THEOREM DeviceTypes == Spec => []TypeOK
<1>1. TypeInv => TypeOK
  BY DEF TypeInv
<1> QED
  BY <1>1, TypesAlways, PTL

\* The directory of the data buffer agrees with its entries at every moment: no
\* entry is lost from the LRU list or is on it twice, none is on the hash list of a
\* slice it does not hold, and no slice has two entries.
THEOREM DirectoryAgrees == Spec => []ListsAgree
<1>1. TypeInv => ListsAgree
  BY DEF TypeInv
<1> QED
  BY <1>1, TypesAlways, PTL

-----------------------------------------------------------------------------
\* The pieces.

\* Where a slice is among the units of its command.
LEMMA TimesOneMore ==
  ASSUME NEW x \in Int, NEW y \in Int
  PROVE  x * y \in Int /\ (x + 1) * y = x * y + y /\ (x - 1) * y = x * y - y /\ 0 * y = 0
OBVIOUS

Place(c, k) == (LogicalSliceAddr(c, k) * NVME_BLOCKS_PER_SLICE - c.lba) * LBA_SIZE

LEMMA PlaceIs ==
  ASSUME NEW c \in Commands, NEW k \in 1 .. SliceCount(c)
  PROVE  /\ Place(c, k) + Base(c, k) = StartIndex(c, k) * LBA_SIZE
         /\ Place(c, k) \in Int /\ Base(c, k) \in Int /\ StartIndex(c, k) * LBA_SIZE \in Int
<1> DEFINE s == StartIndex(c, k)
           o == NvmeBlockOffset(c, k)
           l == LogicalSliceAddr(c, k)
<1>1. /\ s \in Nat /\ o \in {0, 1} /\ l * NVME_BLOCKS_PER_SLICE + o = c.lba + s
      /\ c.lba \in Nat /\ LBA_SIZE \in Nat /\ l \in Nat /\ NVME_BLOCKS_PER_SLICE \in Nat
  BY CommandsAre, SlicesAre, SizesAssumption DEF IsSlice, IsCommand
<1> HIDE DEF s, l
<1>2. l * NVME_BLOCKS_PER_SLICE \in Nat
  BY <1>1
<1>3. l * NVME_BLOCKS_PER_SLICE - c.lba = IF o = 0 THEN s ELSE s - 1
  <2>1. PICK x \in Nat : x = l * NVME_BLOCKS_PER_SLICE
    BY <1>2
  <2> QED
    BY <1>1, <2>1
<1>4. Place(c, k) = IF o = 0 THEN s * LBA_SIZE ELSE (s - 1) * LBA_SIZE
  BY <1>3 DEF Place, l
<1>5. (s - 1) * LBA_SIZE = s * LBA_SIZE - LBA_SIZE /\ s * LBA_SIZE \in Int
  BY <1>1, TimesOneMore
<1>6. Base(c, k) = IF o = 0 THEN 0 ELSE LBA_SIZE
  BY DEF Base
<1> HIDE DEF o
<1> QED
  BY <1>1, <1>4, <1>5, <1>6 DEF s

\* The pieces of a slice are in the host's buffer where its blocks are.
LEMMA PieceInBuffer ==
  ASSUME NEW c \in Commands, NEW k \in 1 .. SliceCount(c), NEW i \in 1 .. MoveCount(c, k)
  PROVE  (StartIndex(c, k) + i - 1) * LBA_SIZE + MoveUnit(c, i) - c.offset = Place(c, k) + MoveAt(c, k, i)
<1> DEFINE s == StartIndex(c, k)
           t == s * LBA_SIZE
           p == Place(c, k)
           b == Base(c, k)
<1>1. /\ s \in Nat /\ LBA_SIZE \in Nat /\ c.offset \in Nat /\ MoveCount(c, k) \in 1 .. 3
      /\ p + b = t /\ p \in Int /\ b \in Int /\ t \in Int
  BY PlaceIs, SliceSizes, CommandsAre
<1>2. (s + 1) * LBA_SIZE = t + LBA_SIZE /\ ((s + 1) + 1) * LBA_SIZE = t + LBA_SIZE + LBA_SIZE
  <2>1. (s + 1) * LBA_SIZE = t + LBA_SIZE
    BY <1>1, TimesOneMore
  <2>2. s + 1 \in Int /\ ((s + 1) + 1) * LBA_SIZE = (s + 1) * LBA_SIZE + LBA_SIZE
    BY <1>1, TimesOneMore
  <2> QED
    BY <2>1, <2>2
<1>3. /\ MoveAt(c, k, i) = b + IF i = 1 THEN 0 ELSE IF i = 2 THEN LBA_SIZE - c.offset
                                 ELSE LBA_SIZE + LBA_SIZE - c.offset
      /\ MoveUnit(c, i) = IF i = 1 THEN c.offset ELSE 0
  BY DEF MoveAt, MoveUnit
<1>4. i \in 1 .. 3
  BY <1>1
<1> DEFINE w == (s + i - 1) * LBA_SIZE
<1>5. w = IF i = 1 THEN t ELSE IF i = 2 THEN (s + 1) * LBA_SIZE ELSE ((s + 1) + 1) * LBA_SIZE
  <2>1. s + i - 1 = IF i = 1 THEN s ELSE IF i = 2 THEN s + 1 ELSE (s + 1) + 1
    BY <1>1, <1>4
  <2> QED
    BY <2>1
<1> HIDE DEF s, t, p, b, w
<1>6. w + MoveUnit(c, i) - c.offset = p + MoveAt(c, k, i)
  BY <1>1, <1>2, <1>3, <1>4, <1>5
<1> QED
  BY <1>6 DEF w, p, s

\* A slice ends where its blocks end.
LEMMA PlaceOfEnd ==
  ASSUME NEW c \in Commands, NEW k \in 1 .. SliceCount(c)
  PROVE  Place(c, k) + SliceEnd(c, k) = (StartIndex(c, k) + NumOfNvmeBlock(c, k)) * LBA_SIZE
<1> DEFINE s == StartIndex(c, k)
           n == NumOfNvmeBlock(c, k)
           t == s * LBA_SIZE
<1>1. /\ s \in Nat /\ LBA_SIZE \in Nat /\ n \in {1, 2} /\ t \in Int
      /\ Place(c, k) + Base(c, k) = t /\ Place(c, k) \in Int /\ Base(c, k) \in Int
  BY PlaceIs, SliceSizes, CommandsAre
<1>2. (s + 1) * LBA_SIZE = t + LBA_SIZE /\ ((s + 1) + 1) * LBA_SIZE = t + LBA_SIZE + LBA_SIZE
  <2>1. (s + 1) * LBA_SIZE = t + LBA_SIZE
    BY <1>1, TimesOneMore
  <2>2. s + 1 \in Int /\ ((s + 1) + 1) * LBA_SIZE = (s + 1) * LBA_SIZE + LBA_SIZE
    BY <1>1, TimesOneMore
  <2> QED
    BY <2>1, <2>2
<1>3. (s + n) * LBA_SIZE = IF n = 1 THEN (s + 1) * LBA_SIZE ELSE ((s + 1) + 1) * LBA_SIZE
  <2>1. s + n = IF n = 1 THEN s + 1 ELSE (s + 1) + 1
    BY <1>1
  <2> QED
    BY <2>1
<1>4. SliceEnd(c, k) = Base(c, k) + IF n = 1 THEN LBA_SIZE ELSE LBA_SIZE + LBA_SIZE
  BY DEF SliceEnd
<1> DEFINE w == (s + n) * LBA_SIZE
           y == (s + 1) * LBA_SIZE
           z == ((s + 1) + 1) * LBA_SIZE
<1>5. w = (IF n = 1 THEN y ELSE z) /\ y = t + LBA_SIZE /\ z = t + LBA_SIZE + LBA_SIZE
  BY <1>2, <1>3
<1> HIDE DEF s, n, t, w, y, z
<1>6. w = Place(c, k) + SliceEnd(c, k)
  BY <1>1, <1>4, <1>5
<1> QED
  BY <1>6 DEF w, s, n

\* No piece is past the end of the entry.
LEMMA SliceWithinEntry ==
  ASSUME NEW c \in Commands, NEW k \in 1 .. SliceCount(c)
  PROVE  Base(c, k) \in Nat /\ SliceEnd(c, k) \in Nat /\ Base(c, k) .. SliceEnd(c, k) - 1 \subseteq Units
<1>1. /\ NumOfNvmeBlock(c, k) \in {1, 2} /\ NvmeBlockOffset(c, k) \in {0, 1} /\ LBA_SIZE \in Nat
      /\ NvmeBlockOffset(c, k) + NumOfNvmeBlock(c, k) <= NVME_BLOCKS_PER_SLICE
  BY SliceSizes, CommandsAre
<1>2. CASE NVME_BLOCKS_PER_SLICE = 1
  BY <1>1, <1>2 DEF Units, Base, SliceEnd
<1>3. CASE NVME_BLOCKS_PER_SLICE = 2
  BY <1>1, <1>3 DEF Units, Base, SliceEnd
<1> QED
  BY <1>2, <1>3, SizesAssumption

\* A slice request of the command in hand.
LEMMA RequestTiles ==
  ASSUME cmd \in Commands, NEW k \in 1 .. SliceCount(cmd), NEW q, OfSlice(q, cmd, k)
  PROVE  /\ DOMAIN q.moves = 1 .. MoveCount(cmd, k) /\ MoveCount(cmd, k) \in Nat \ {0}
         /\ \A i \in DOMAIN q.moves :
              LET m == q.moves[i]
              IN  /\ InBuffer(m) = OnDrive(q, m)
                  /\ m.len > 0 /\ m.unit \in Nat /\ m.unit + m.len <= LBA_SIZE
                  /\ Moved(m) \subseteq Units
                  /\ i > 1 => m.at = q.moves[i - 1].at + q.moves[i - 1].len
         /\ Start(q) = StartIndex(cmd, k) * LBA_SIZE
         /\ End(q) = (StartIndex(cmd, k) + NumOfNvmeBlock(cmd, k)) * LBA_SIZE
<1> DEFINE n == MoveCount(cmd, k)
<1>1. /\ Len(Moves(cmd, k)) = n /\ DOMAIN Moves(cmd, k) = 1 .. n
      /\ \A i \in 1 .. n : Moves(cmd, k)[i] = Move(cmd, k, i)
  BY MovesAre, CommandsAre
<1>2. q.moves = Moves(cmd, k) /\ q.lsa = LogicalSliceAddr(cmd, k)
  BY DEF OfSlice
<1>3. n \in 1 .. 3 /\ LBA_SIZE \in Nat /\ cmd.offset \in 0 .. LBA_SIZE - 1 /\ StartIndex(cmd, k) \in Nat
  BY SliceSizes, CommandsAre
<1>4. ASSUME NEW i \in 1 .. n
      PROVE  /\ q.moves[i].page = StartIndex(cmd, k) + i /\ q.moves[i].unit = MoveUnit(cmd, i)
             /\ q.moves[i].len = MoveLen(cmd, k, i) /\ q.moves[i].at = MoveAt(cmd, k, i)
  BY <1>1, <1>2 DEF Move
<1>5. \A m : OnDrive(q, m) = Place(cmd, k) + m.at
  BY <1>2 DEF OnDrive, Place
<1>6. Base(cmd, k) \in Nat /\ SliceEnd(cmd, k) \in Nat /\ Base(cmd, k) .. SliceEnd(cmd, k) - 1 \subseteq Units
  BY SliceWithinEntry
<1> HIDE DEF n
<1>7. ASSUME NEW i \in 1 .. n
      PROVE  /\ InBuffer(q.moves[i]) = OnDrive(q, q.moves[i])
             /\ q.moves[i].len > 0 /\ q.moves[i].unit \in Nat /\ q.moves[i].unit + q.moves[i].len <= LBA_SIZE
             /\ Moved(q.moves[i]) \subseteq Units
             /\ i > 1 => q.moves[i].at = q.moves[i - 1].at + q.moves[i - 1].len
  <2>1. InBuffer(q.moves[i]) = (StartIndex(cmd, k) + i - 1) * LBA_SIZE + MoveUnit(cmd, i) - cmd.offset
    <3>1. PICK m : m = q.moves[i]
      OBVIOUS
    <3>2. InBuffer(m) = (m.page - 1) * LBA_SIZE + m.unit - cmd.offset
      BY DEF InBuffer
    <3>3. m.page = StartIndex(cmd, k) + i /\ m.unit = MoveUnit(cmd, i)
      BY <1>4, <3>1
    <3>4. InBuffer(m) = (StartIndex(cmd, k) + i - 1) * LBA_SIZE + MoveUnit(cmd, i) - cmd.offset
      <4>1. m.page - 1 = StartIndex(cmd, k) + i - 1
        BY <1>3, <3>3
      <4> QED
        BY <3>2, <3>3, <4>1, Zenon
    <3> QED
      BY <3>1, <3>4
  <2>2. InBuffer(q.moves[i]) = OnDrive(q, q.moves[i])
    BY <2>1, <1>4, <1>5, PieceInBuffer DEF n
  <2>3. /\ MoveLen(cmd, k, i) > 0 /\ MoveUnit(cmd, i) + MoveLen(cmd, k, i) <= LBA_SIZE
        /\ Base(cmd, k) <= MoveAt(cmd, k, i) /\ MoveAt(cmd, k, i) + MoveLen(cmd, k, i) <= SliceEnd(cmd, k)
        /\ i > 1 => MoveAt(cmd, k, i) = MoveAt(cmd, k, i - 1) + MoveLen(cmd, k, i - 1)
    BY MovesTile, CommandsAre DEF n
  <2>4. MoveUnit(cmd, i) \in Nat /\ MoveAt(cmd, k, i) \in Int /\ MoveLen(cmd, k, i) \in Int
    BY <1>3, <1>6 DEF MoveUnit, MoveAt, MoveLen
  <2>5. Moved(q.moves[i]) \subseteq Base(cmd, k) .. SliceEnd(cmd, k) - 1
    BY <1>4, <1>6, <2>3, <2>4 DEF Moved
  <2>6. i > 1 => i - 1 \in 1 .. n
    BY <1>3
  <2> QED
    BY <1>4, <1>6, <2>2, <2>3, <2>4, <2>5, <2>6
<1>8. 1 \in 1 .. n /\ n \in 1 .. n /\ DOMAIN q.moves = 1 .. n /\ Len(q.moves) = n
  BY <1>1, <1>2, <1>3 DEF n
<1>9. MoveAt(cmd, k, 1) = Base(cmd, k) /\ MoveAt(cmd, k, n) + MoveLen(cmd, k, n) = SliceEnd(cmd, k)
  BY MovesTile, CommandsAre DEF n
<1>10. Start(q) = StartIndex(cmd, k) * LBA_SIZE
  BY <1>4, <1>5, <1>8, <1>9, PlaceIs DEF Start
<1>11. End(q) = (StartIndex(cmd, k) + NumOfNvmeBlock(cmd, k)) * LBA_SIZE
  <2>1. Place(cmd, k) \in Int /\ MoveAt(cmd, k, n) \in Int /\ MoveLen(cmd, k, n) \in Int
    BY <1>3, <1>6, PlaceIs DEF MoveAt, MoveLen
  <2>2. End(q) = (Place(cmd, k) + MoveAt(cmd, k, n)) + MoveLen(cmd, k, n)
    BY <1>4, <1>5, <1>8 DEF End
  <2>3. End(q) = Place(cmd, k) + (MoveAt(cmd, k, n) + MoveLen(cmd, k, n))
    BY <2>1, <2>2
  <2> QED
    BY <2>3, <1>9, PlaceOfEnd
<1>12. DOMAIN q.moves = 1 .. MoveCount(cmd, k) /\ MoveCount(cmd, k) \in Nat \ {0}
  BY <1>3, <1>8 DEF n
<1>13. \A i \in DOMAIN q.moves :
         /\ InBuffer(q.moves[i]) = OnDrive(q, q.moves[i])
         /\ q.moves[i].len > 0 /\ q.moves[i].unit \in Nat /\ q.moves[i].unit + q.moves[i].len <= LBA_SIZE
         /\ Moved(q.moves[i]) \subseteq Units
         /\ i > 1 => q.moves[i].at = q.moves[i - 1].at + q.moves[i - 1].len
  BY <1>7, <1>8, Zenon
<1> QED
  BY <1>10, <1>11, <1>12, <1>13, Zenon

LEMMA TilesFromTypes == TypeInv => PiecesTile
<1>1. SUFFICES ASSUME TypeInv, pc = "slices", Len(sliceReqQ) = SliceCount(cmd)
               PROVE  /\ PiecesFit(cmd)
                      /\ \A k \in DOMAIN sliceReqQ :
                           LET q == sliceReqQ[k]
                           IN  /\ \A i \in DOMAIN q.moves :
                                    LET m == q.moves[i]
                                    IN  /\ InBuffer(m) = OnDrive(q, m)
                                        /\ m.len > 0 /\ m.unit \in Nat /\ m.unit + m.len <= LBA_SIZE
                                        /\ Moved(m) \subseteq Units
                                        /\ i > 1 => m.at = q.moves[i - 1].at + q.moves[i - 1].len
                               /\ Start(q) = IF k = 1 THEN 0 ELSE End(sliceReqQ[k - 1])
                      /\ End(sliceReqQ[SliceCount(cmd)]) = DataLength(cmd)
  BY DEF PiecesTile
<1> DEFINE n == SliceCount(cmd)
<1>2. QueueOK /\ DOMAIN sliceReqQ = 1 .. n
  BY <1>1, Types
<1>3. cmd \in Commands /\ n \in Nat \ {0}
  <2>1. cmd \in Commands
    BY <1>1, <1>2 DEF QueueOK
  <2> QED
    BY <2>1, CommandsAre, SlicesAre
<1>4. \A k \in 1 .. n : OfSlice(sliceReqQ[k], cmd, k)
  <2>1. \A k \in 1 .. n : n - n + k = k
    BY <1>3
  <2> QED
    BY <1>1, <1>2, <2>1 DEF QueueOK, IsSliceReq
<1> HIDE DEF n
<1>5. \A k \in 1 .. n :
        IsSlice(cmd, k, NumOfNvmeBlock(cmd, k), NvmeBlockOffset(cmd, k), StartIndex(cmd, k),
                LogicalSliceAddr(cmd, k))
  BY <1>3, CommandsAre, SlicesAre DEF n
<1>6. PiecesFit(cmd)
  <2>1. SUFFICES ASSUME NEW k \in 1 .. n
                 PROVE  NvmeBlockOffset(cmd, k) + Len(Pieces(cmd, k)) <= NVME_BLOCKS_PER_SLICE + 1
    BY DEF PiecesFit, n
  <2>2. Len(Pieces(cmd, k)) = MoveCount(cmd, k)
    BY <1>3, CommandsAre, PiecesAre DEF n
  <2>3. /\ NumOfNvmeBlock(cmd, k) \in {1, 2} /\ NvmeBlockOffset(cmd, k) \in {0, 1}
        /\ NvmeBlockOffset(cmd, k) + NumOfNvmeBlock(cmd, k) <= NVME_BLOCKS_PER_SLICE
    BY <1>3, CommandsAre, SliceSizes DEF n
  <2> QED
    BY <2>2, <2>3, SizesAssumption DEF MoveCount
<1>7. \A k \in 1 .. n : /\ Start(sliceReqQ[k]) = StartIndex(cmd, k) * LBA_SIZE
                        /\ End(sliceReqQ[k]) = (StartIndex(cmd, k) + NumOfNvmeBlock(cmd, k)) * LBA_SIZE
  BY <1>3, <1>4, RequestTiles DEF n
<1>8. ASSUME NEW k \in 1 .. n
      PROVE  Start(sliceReqQ[k]) = IF k = 1 THEN 0 ELSE End(sliceReqQ[k - 1])
  <2>1. CASE k = 1
    <3>1. StartIndex(cmd, k) = 0
      BY <1>5, <2>1 DEF IsSlice
    <3>2. LBA_SIZE \in Int
      BY SizesAssumption
    <3> QED
      BY <1>7, <2>1, <3>1, <3>2, TimesOneMore
  <2>2. CASE k # 1
    <3>1. k - 1 \in 1 .. n /\ k - 1 # n /\ (k - 1) + 1 = k
      BY <1>3, <2>2
    <3>2. StartIndex(cmd, k) = StartIndex(cmd, k - 1) + NumOfNvmeBlock(cmd, k - 1)
      BY <1>5, <3>1 DEF IsSlice, n
    <3> QED
      BY <1>7, <2>2, <3>1, <3>2
  <2> QED
    BY <2>1, <2>2
<1>9. End(sliceReqQ[n]) = DataLength(cmd)
  <2>1. n \in 1 .. n
    BY <1>3
  <2>2. StartIndex(cmd, n) + NumOfNvmeBlock(cmd, n) = Blocks(cmd)
    BY <1>5, <2>1 DEF IsSlice, n
  <2>3. DataLength(cmd) = Blocks(cmd) * LBA_SIZE
    BY <1>3, CommandsAre, PrpNumIs
  <2> QED
    BY <1>7, <2>1, <2>2, <2>3
<1>10. ASSUME NEW k \in 1 .. n
       PROVE  \A i \in DOMAIN sliceReqQ[k].moves :
                LET m == sliceReqQ[k].moves[i]
                IN  /\ InBuffer(m) = OnDrive(sliceReqQ[k], m)
                    /\ m.len > 0 /\ m.unit \in Nat /\ m.unit + m.len <= LBA_SIZE
                    /\ Moved(m) \subseteq Units
                    /\ i > 1 => m.at = sliceReqQ[k].moves[i - 1].at + sliceReqQ[k].moves[i - 1].len
  <2>1. PICK q : q = sliceReqQ[k]
    OBVIOUS
  <2>2. OfSlice(q, cmd, k)
    BY <1>4, <2>1
  <2> QED
    BY <1>3, <2>1, <2>2, RequestTiles, Zenon DEF n
<1> QED
  BY <1>2, <1>6, <1>8, <1>9, <1>10 DEF n

\* The pieces of the slices a command was cut into are the host's buffer, each unit
\* once, in order and at the place of its block; and they fit in their request.
\* For commands of any length, at any place of their pages and of their lists.
THEOREM PiecesAlwaysTile == Spec => []PiecesTile
BY TypesAlways, TilesFromTypes, PTL

\* The order of the requests of an entry, when one is appended,
Appended ==
  /\ IsSeq(lowReqs') /\ Len(lowReqs) \in Nat /\ Len(lowReqs') = Len(lowReqs) + 1
  /\ \A i \in 1 .. Len(lowReqs) : lowReqs'[i] = lowReqs[i]

LEMMA AppendedOrder ==
  ASSUME Appended, DOMAIN lowReqs = 1 .. Len(lowReqs), NEW n, n = Len(lowReqs),
         NEW e, e = lowReqs'[n + 1].entry
  PROVE  /\ \A i \in 1 .. n : First(lowReqs', i) <=> First(lowReqs, i)
         /\ First(lowReqs', n + 1) <=> Alone(lowReqs, e)
         /\ \A i, j \in 1 .. n : Adjacent(i, j)' <=> Adjacent(i, j)
         /\ \A i \in 1 .. n : /\ Adjacent(i, n + 1)' <=> LastOf(i) /\ lowReqs[i].entry = e
                              /\ ~ Adjacent(n + 1, i)'
                              /\ LastOf(i)' <=> LastOf(i) /\ lowReqs[i].entry # e
         /\ LastOf(n + 1)' /\ ~ Adjacent(n + 1, n + 1)'
         /\ \A f : Alone(lowReqs', f) <=> Alone(lowReqs, f) /\ e # f
<1>1. /\ n \in Nat /\ Len(lowReqs') = n + 1 /\ \A i \in 1 .. n : lowReqs'[i] = lowReqs[i]
      /\ DOMAIN lowReqs' = 1 .. n + 1
  BY SeqSizes DEF Appended
<1>2. ASSUME NEW i \in 1 .. n PROVE First(lowReqs', i) <=> First(lowReqs, i)
  <2>1. \A j \in 1 .. i - 1 : lowReqs'[j] = lowReqs[j]
    BY <1>1
  <2> QED
    BY <1>1, <2>1 DEF First
<1>3. First(lowReqs', n + 1) <=> Alone(lowReqs, e)
  <2>1. (n + 1) - 1 = n
    BY <1>1
  <2> QED
    BY <1>1, <2>1 DEF First, Alone
<1>4. ASSUME NEW i \in 1 .. n, NEW j \in 1 .. n PROVE Adjacent(i, j)' <=> Adjacent(i, j)
  <2>1. \A m \in i + 1 .. j - 1 : lowReqs'[m] = lowReqs[m]
    BY <1>1
  <2> QED
    BY <1>1, <2>1 DEF Adjacent
<1>5. ASSUME NEW i \in 1 .. n
      PROVE  /\ Adjacent(i, n + 1)' <=> LastOf(i) /\ lowReqs[i].entry = e
             /\ ~ Adjacent(n + 1, i)'
             /\ LastOf(i)' <=> LastOf(i) /\ lowReqs[i].entry # e
  <2>1. \A m \in i + 1 .. n : lowReqs'[m] = lowReqs[m]
    BY <1>1
  <2>2. (n + 1) - 1 = n /\ i < n + 1 /\ ~ n + 1 < i
    BY <1>1
  <2>3. \A m : m \in i + 1 .. n + 1 <=> m \in i + 1 .. n \/ m = n + 1
    BY <1>1
  <2>4. Adjacent(i, n + 1)' <=> LastOf(i) /\ lowReqs[i].entry = e
    <3>1. i + 1 .. (n + 1) - 1 = i + 1 .. n
      BY <2>2
    <3>2. lowReqs'[i] = lowReqs[i] /\ i < n + 1
      BY <1>1, <2>2
    <3>3. Adjacent(i, n + 1)'
            <=> /\ lowReqs[i].entry = e
                /\ \A m \in i + 1 .. (n + 1) - 1 : lowReqs'[m].entry # lowReqs[i].entry
      BY <3>2 DEF Adjacent
    <3> QED
      BY <2>1, <3>1, <3>3 DEF LastOf
  <2>5. LastOf(i)' <=> LastOf(i) /\ lowReqs[i].entry # e
    BY <1>1, <2>1, <2>3 DEF LastOf
  <2>6. ~ Adjacent(n + 1, i)'
    BY <2>2 DEF Adjacent
  <2> QED
    BY <2>4, <2>5, <2>6
<1>6. LastOf(n + 1)' /\ ~ Adjacent(n + 1, n + 1)'
  BY <1>1 DEF LastOf, Adjacent
<1>7. ASSUME NEW f PROVE Alone(lowReqs', f) <=> Alone(lowReqs, f) /\ e # f
  <2>1. \A m : m \in 1 .. n + 1 <=> m \in 1 .. n \/ m = n + 1
    BY <1>1
  <2> QED
    BY <1>1, <2>1 DEF Alone
<1> QED
  BY <1>2, <1>3, <1>4, <1>5, <1>6, <1>7

\* and when the first of an entry is taken out.
LEMMA AfterIs ==
  ASSUME NEW n \in Nat, NEW i \in 1 .. n
  PROVE  /\ \A j \in 1 .. n - 1 : After(j, i) \in 1 .. n /\ After(j, i) # i
         /\ \A j, k \in 1 .. n - 1 : /\ After(j, i) < After(k, i) <=> j < k
                                     /\ After(j, i) = After(k, i) => j = k
         /\ \A m \in 1 .. n : m # i => \E j \in 1 .. n - 1 : After(j, i) = m
<1>1. /\ \A j \in 1 .. n - 1 : After(j, i) \in 1 .. n /\ After(j, i) # i
      /\ \A j, k \in 1 .. n - 1 : /\ After(j, i) < After(k, i) <=> j < k
                                  /\ After(j, i) = After(k, i) => j = k
  BY DEF After
<1>2. ASSUME NEW m \in 1 .. n, m # i PROVE \E j \in 1 .. n - 1 : After(j, i) = m
  <2>1. CASE m < i
    <3>1. m \in 1 .. n - 1 /\ After(m, i) = m
      BY <2>1 DEF After
    <3> QED
      BY <3>1
  <2>2. CASE m > i
    <3>1. m - 1 \in 1 .. n - 1 /\ After(m - 1, i) = m
      BY <2>2 DEF After
    <3> QED
      BY <3>1
  <2> QED
    BY <1>2, <2>1, <2>2
<1> QED
  BY <1>1, <1>2

\* Request i is taken out of lowReqs.
Removed(i) ==
  /\ IsSeq(lowReqs') /\ Len(lowReqs) \in Nat \ {0} /\ Len(lowReqs') = Len(lowReqs) - 1
  /\ i \in 1 .. Len(lowReqs) /\ First(lowReqs, i)
  /\ \A j \in 1 .. Len(lowReqs) - 1 : lowReqs'[j].entry = lowReqs[After(j, i)].entry

LEMMA RemovedOrder ==
  ASSUME NEW i, Removed(i)
  PROVE  LET n == Len(lowReqs)
         IN  /\ \A j \in 1 .. n - 1 :
                  /\ First(lowReqs', j) <=> First(lowReqs, After(j, i)) \/ Adjacent(i, After(j, i))
                  /\ LastOf(j)' <=> LastOf(After(j, i))
             /\ \A j, k \in 1 .. n - 1 : Adjacent(j, k)' <=> Adjacent(After(j, i), After(k, i))
<1> DEFINE n == Len(lowReqs)
           o(j) == After(j, i)
<1>1. /\ n \in Nat \ {0} /\ Len(lowReqs') = n - 1 /\ i \in 1 .. n
      /\ \A j \in 1 .. n - 1 : lowReqs'[j].entry = lowReqs[o(j)].entry
      /\ \A m \in 1 .. i - 1 : lowReqs[m].entry # lowReqs[i].entry
  BY DEF Removed, First
<1>2. /\ \A j \in 1 .. n - 1 : o(j) \in 1 .. n /\ o(j) # i
      /\ \A j, k \in 1 .. n - 1 : (o(j) < o(k) <=> j < k) /\ (o(j) = o(k) => j = k)
      /\ \A m \in 1 .. n : m # i => \E j \in 1 .. n - 1 : o(j) = m
  BY <1>1, AfterIs
<1> HIDE DEF n, o
<1>3. ASSUME NEW j \in 1 .. n - 1
      PROVE  First(lowReqs', j) <=> First(lowReqs, o(j)) \/ Adjacent(i, o(j))
  <2>1. First(lowReqs', j) <=> \A m \in 1 .. n : m # i /\ m < o(j) => lowReqs[m].entry # lowReqs[o(j)].entry
    <3>1. First(lowReqs', j) <=> \A k \in 1 .. n - 1 : k < j => lowReqs'[k].entry # lowReqs'[j].entry
      BY <1>1 DEF First
    <3>2. ASSUME \A k \in 1 .. n - 1 : k < j => lowReqs'[k].entry # lowReqs'[j].entry,
                 NEW m \in 1 .. n, m # i, m < o(j)
          PROVE  lowReqs[m].entry # lowReqs[o(j)].entry
      <4>1. PICK k \in 1 .. n - 1 : o(k) = m
        BY <1>2, <3>2
      <4> QED
        BY <1>1, <1>2, <3>2, <4>1
    <3>3. ASSUME \A m \in 1 .. n : m # i /\ m < o(j) => lowReqs[m].entry # lowReqs[o(j)].entry,
                 NEW k \in 1 .. n - 1, k < j
          PROVE  lowReqs'[k].entry # lowReqs'[j].entry
      <4>1. o(k) \in 1 .. n /\ o(k) # i /\ o(k) < o(j)
        BY <1>2, <3>3
      <4> QED
        BY <1>1, <3>3, <4>1
    <3> QED
      BY <3>1, <3>2, <3>3
  <2>2. First(lowReqs, o(j)) <=> \A m \in 1 .. n : m < o(j) => lowReqs[m].entry # lowReqs[o(j)].entry
    BY <1>1, <1>2 DEF First
  <2>3. Adjacent(i, o(j)) <=> /\ i < o(j) /\ lowReqs[i].entry = lowReqs[o(j)].entry
                              /\ \A m \in 1 .. n : i < m /\ m < o(j) => lowReqs[m].entry # lowReqs[i].entry
    BY <1>1, <1>2 DEF Adjacent
  <2>4. o(j) \in 1 .. n /\ o(j) # i
    BY <1>2
  <2> HIDE DEF o
  <2>5. Adjacent(i, o(j)) => \A m \in 1 .. n : m # i /\ m < o(j) => lowReqs[m].entry # lowReqs[o(j)].entry
    BY <1>1, <2>3, <2>4
  <2>6. ASSUME \A m \in 1 .. n : m # i /\ m < o(j) => lowReqs[m].entry # lowReqs[o(j)].entry,
               ~ First(lowReqs, o(j))
        PROVE  Adjacent(i, o(j))
    <3>1. i < o(j) /\ lowReqs[i].entry = lowReqs[o(j)].entry
      BY <2>2, <2>6
    <3> QED
      BY <1>1, <2>3, <2>4, <2>6, <3>1
  <2> QED
    BY <2>1, <2>2, <2>5, <2>6
<1>4. ASSUME NEW j \in 1 .. n - 1
      PROVE  LastOf(j)' <=> LastOf(o(j))
  <2>1. LastOf(j)' <=> \A k \in 1 .. n - 1 : j < k => lowReqs'[k].entry # lowReqs'[j].entry
    BY <1>1 DEF LastOf
  <2>2. LastOf(o(j)) <=> \A m \in 1 .. n : o(j) < m => lowReqs[m].entry # lowReqs[o(j)].entry
    BY <1>1, <1>2 DEF LastOf, n
  <2>3. o(j) < i => lowReqs[i].entry # lowReqs[o(j)].entry
    BY <1>1, <1>2
  <2>4. ASSUME LastOf(j)', NEW m \in 1 .. n, o(j) < m
        PROVE  lowReqs[m].entry # lowReqs[o(j)].entry
    <3>1. CASE m = i
      BY <2>3, <2>4, <3>1
    <3>2. CASE m # i
      <4>1. PICK k \in 1 .. n - 1 : o(k) = m
        BY <1>2, <3>2
      <4>2. j < k
        BY <1>2, <2>4, <4>1
      <4> QED
        BY <1>1, <2>1, <2>4, <4>1, <4>2
    <3> QED
      BY <3>1, <3>2
  <2>5. ASSUME LastOf(o(j)), NEW k \in 1 .. n - 1, j < k
        PROVE  lowReqs'[k].entry # lowReqs'[j].entry
    <3>1. o(k) \in 1 .. n /\ o(j) < o(k)
      BY <1>2, <2>5
    <3> QED
      BY <1>1, <2>2, <2>5, <3>1
  <2> QED
    BY <2>1, <2>2, <2>4, <2>5
<1>5. ASSUME NEW j \in 1 .. n - 1, NEW k \in 1 .. n - 1
      PROVE  Adjacent(j, k)' <=> Adjacent(o(j), o(k))
  <2>1. Adjacent(j, k)' <=> /\ j < k /\ lowReqs'[j].entry = lowReqs'[k].entry
                            /\ \A m \in 1 .. n - 1 : j < m /\ m < k => lowReqs'[m].entry # lowReqs'[j].entry
    BY <1>1 DEF Adjacent
  <2>2. Adjacent(o(j), o(k)) <=>
          /\ o(j) < o(k) /\ lowReqs[o(j)].entry = lowReqs[o(k)].entry
          /\ \A m \in 1 .. n : o(j) < m /\ m < o(k) => lowReqs[m].entry # lowReqs[o(j)].entry
    <3>1. PICK x \in 1 .. n : x = o(j)
      BY <1>2
    <3>2. PICK y \in 1 .. n : y = o(k)
      BY <1>2
    <3>3. \A m : m \in x + 1 .. y - 1 <=> m \in 1 .. n /\ x < m /\ m < y
      BY <1>1
    <3>4. Adjacent(x, y) <=>
            /\ x < y /\ lowReqs[x].entry = lowReqs[y].entry
            /\ \A m \in 1 .. n : x < m /\ m < y => lowReqs[m].entry # lowReqs[x].entry
      BY <3>3 DEF Adjacent
    <3> QED
      BY <3>1, <3>2, <3>4
  <2>3. o(j) < i => lowReqs[i].entry # lowReqs[o(j)].entry
    BY <1>1, <1>2
  <2>4. (j < k <=> o(j) < o(k)) /\ lowReqs'[j].entry = lowReqs[o(j)].entry /\ lowReqs'[k].entry = lowReqs[o(k)].entry
    BY <1>1, <1>2
  <2>5. ASSUME Adjacent(j, k)', NEW m \in 1 .. n, o(j) < m, m < o(k)
        PROVE  lowReqs[m].entry # lowReqs[o(j)].entry
    <3>1. CASE m = i
      BY <2>3, <2>5, <3>1
    <3>2. CASE m # i
      <4>1. PICK x \in 1 .. n - 1 : o(x) = m
        BY <1>2, <3>2
      <4>2. j < x /\ x < k
        BY <1>2, <2>5, <4>1
      <4> QED
        BY <1>1, <2>1, <2>5, <4>1, <4>2
    <3> QED
      BY <3>1, <3>2
  <2>6. ASSUME Adjacent(o(j), o(k)), NEW m \in 1 .. n - 1, j < m, m < k
        PROVE  lowReqs'[m].entry # lowReqs'[j].entry
    <3>1. o(m) \in 1 .. n /\ o(j) < o(m) /\ o(m) < o(k)
      BY <1>2, <2>6
    <3> QED
      BY <1>1, <2>2, <2>6, <3>1
  <2> QED
    BY <2>1, <2>2, <2>4, <2>5, <2>6
<1> QED
  BY <1>3, <1>4, <1>5 DEF n, o

\* EndRequest is such a removal.
LEMMA EndRemoves ==
  ASSUME TypeInv, NEW i \in 1 .. Len(lowReqs), EndRequest(i)
  PROVE  Removed(i)
<1>1. /\ First(lowReqs, i)
      /\ IsSeq(lowReqs') /\ Len(lowReqs) \in Nat \ {0} /\ Len(lowReqs') = Len(lowReqs) - 1
      /\ \A j \in 1 .. Len(lowReqs) - 1 : SameButGot(lowReqs'[j], lowReqs[After(j, i)])
  BY EndIs
<1> QED
  BY <1>1 DEF Removed, SameButGot

-----------------------------------------------------------------------------
\* Completions.

\* PostOK: each step keeps it.
PostInv == TypeInv /\ PostOK

LEMMA PostStays ==
  ASSUME PostOK, UNCHANGED <<lowReqs, open>>, ToPost' <=> ToPost, ToPost => cmd' = cmd
  PROVE  PostOK'
<1>1. \A i : WaitsToPost(i)' <=> WaitsToPost(i)
  BY DEF WaitsToPost, Waits, First
<1> QED
  BY <1>1 DEF PostOK

\* Which of a command's slices posts its completion.
LEMMA WhoPosts ==
  ASSUME TypeInv
  PROVE  /\ \A j \in 1 .. Len(sliceReqQ) : /\ sliceReqQ[j].id = cmd.id
                                           /\ sliceReqQ[j].cqEn <=> j = Len(sliceReqQ)
         /\ req # NoReq => /\ Busy /\ req.id = cmd.id
                           /\ req.cqEn <=> Len(sliceReqQ) = 0
<1>1. QueueOK /\ Len(sliceReqQ) \in Nat
  BY Types
<1>2. pc = "idle" => Len(sliceReqQ) = 0 /\ req = NoReq
  BY <1>1 DEF QueueOK, Busy
<1>3. CASE pc # "idle"
  <2>1. cmd \in Commands /\ SliceCount(cmd) \in Nat
    BY <1>1, <1>3, CommandsAre, SlicesAre DEF QueueOK
  <2>2. ASSUME NEW j \in 1 .. Len(sliceReqQ)
        PROVE  sliceReqQ[j].id = cmd.id /\ (sliceReqQ[j].cqEn <=> j = Len(sliceReqQ))
    <3>1. OfSlice(sliceReqQ[j], cmd, SliceCount(cmd) - Len(sliceReqQ) + j)
      BY <1>1, <1>3 DEF QueueOK, IsSliceReq
    <3>2. CqEn(cmd, SliceCount(cmd) - Len(sliceReqQ) + j) <=> j = Len(sliceReqQ)
      BY <1>1, <2>1 DEF CqEn
    <3> QED
      BY <3>1, <3>2 DEF OfSlice
  <2>3. ASSUME req # NoReq
        PROVE  Busy /\ req.id = cmd.id /\ (req.cqEn <=> Len(sliceReqQ) = 0)
    <3>1. Busy /\ OfSlice(req, cmd, SliceCount(cmd) - Len(sliceReqQ))
      BY <1>1, <2>3 DEF QueueOK, IsSliceReq
    <3>2. CqEn(cmd, SliceCount(cmd) - Len(sliceReqQ)) <=> Len(sliceReqQ) = 0
      BY <1>1, <2>1 DEF CqEn
    <3> QED
      BY <3>1, <3>2 DEF OfSlice
  <2> QED
    BY <2>2, <2>3
<1> QED
  BY <1>1, <1>2, <1>3

\* A NAND request posts nothing.
LEMMA PostOfNand ==
  ASSUME PostInv, Appended, ~ lowReqs'[Len(lowReqs) + 1].cqEn, open' = open, ToPost' <=> ToPost, cmd' = cmd
  PROVE  PostOK'
<1>1. PICK n : n = Len(lowReqs)
  OBVIOUS
<1>2. PICK e : e = lowReqs'[n + 1].entry
  OBVIOUS
<1>3. DOMAIN lowReqs = 1 .. n /\ TypeInv /\ PostOK
  BY <1>1, Types DEF PostInv
<1>4. /\ n \in Nat /\ Len(lowReqs') = n + 1 /\ \A i \in 1 .. n : lowReqs'[i] = lowReqs[i]
  BY <1>1 DEF Appended
<1>5. \A i \in 1 .. n : First(lowReqs', i) <=> First(lowReqs, i)
  BY <1>1, <1>2, <1>3, AppendedOrder
<1>6. \A i \in 1 .. n : WaitsToPost(i)' <=> WaitsToPost(i)
  BY <1>4, <1>5 DEF WaitsToPost, Waits
<1>7. ~ WaitsToPost(n + 1)'
  <2>1. ~ lowReqs'[n + 1].cqEn
    BY <1>1
  <2> QED
    BY <2>1 DEF WaitsToPost
<1>8. \A i : i \in 1 .. n + 1 <=> i \in 1 .. n \/ i = n + 1
  BY <1>4
<1>9. /\ ToPost' => cmd'.id \in open'
      /\ \A i \in 1 .. n + 1 : WaitsToPost(i)' => lowReqs'[i].id \in open' /\ (ToPost' => lowReqs'[i].id # cmd'.id)
      /\ \A i, j \in 1 .. n + 1 :
           WaitsToPost(i)' /\ WaitsToPost(j)' /\ lowReqs'[i].id = lowReqs'[j].id => i = j
  BY <1>1, <1>3, <1>4, <1>6, <1>7, <1>8 DEF PostOK
<1>10. ASSUME NEW id \in open
       PROVE  \/ ToPost' /\ id = cmd'.id
              \/ \E i \in 1 .. n + 1 : WaitsToPost(i)' /\ lowReqs'[i].id = id
  <2>1. CASE ToPost /\ id = cmd.id
    BY <2>1
  <2>2. CASE \E i \in 1 .. n : WaitsToPost(i) /\ lowReqs[i].id = id
    BY <2>2, <1>4, <1>6, <1>8
  <2> QED
    BY <1>1, <1>3, <2>1, <2>2 DEF PostOK
<1> QED
  BY <1>4, <1>9, <1>10 DEF PostOK

\* NAND requests change nothing else.
LEMMA SelectNand ==
  ASSUME TypeInv, NEW code \in {"PROGRAM", "FETCH"}, NEW e \in Entry, NEW p \in Pages, NEW s,
         NEW r, r = NandReq(code, e, p), Select(r, s)
  PROVE  /\ Appended /\ pc' = s /\ data' = data /\ open' = open
         /\ SameButGot(lowReqs'[Len(lowReqs) + 1], r) /\ lowReqs'[Len(lowReqs) + 1].got = <<>>
         /\ ~ lowReqs'[Len(lowReqs) + 1].cqEn
<1>1. LowReq(r) /\ r.got = <<>>
  BY NandReqIsLow
<1>2. r.code = code /\ r.cqEn = FALSE
  BY DEF NandReq
<1>3. ~ IsDma(r)
  BY <1>2 DEF IsDma
<1>4. data' = data /\ open' = open
  BY <1>3, Zenon DEF Select
<1>5. IsReq(r) /\ r.entry \in Entry
  BY <1>1 DEF LowReq
<1>6. IsSeq(lowReqs) /\ data \in [Entry -> Content]
  BY Types DEF LowReqsOK
<1>7. /\ pc' = s /\ IsSeq(lowReqs') /\ Len(lowReqs) \in Nat /\ Len(lowReqs') = Len(lowReqs) + 1
      /\ \A i \in 1 .. Len(lowReqs) : lowReqs'[i] = lowReqs[i]
      /\ SameButGot(lowReqs'[Len(lowReqs) + 1], r)
      /\ lowReqs'[Len(lowReqs) + 1].got = r.got
  BY <1>2, <1>3, <1>5, <1>6, SelectIs
<1>8. ~ lowReqs'[Len(lowReqs) + 1].cqEn
  BY <1>2, <1>7 DEF SameButGot
<1> QED
  BY <1>1, <1>4, <1>7, <1>8 DEF Appended

LEMMA MissPosts ==
  ASSUME PostInv, NEW e \in Entry, Miss(e)
  PROVE  PostOK'
<1>1. TypeInv /\ PostOK /\ pc = "find" /\ cmd' = cmd /\ sliceReqQ' = sliceReqQ /\ (dirty[e] => FreeSlots(1))
  BY DEF PostInv, Miss, MustWriteBack
<1>2. CASE dirty[e]
  <2>1. Select(NandReq("PROGRAM", e, FreePage), "fetch")
    BY <1>2 DEF Miss, MustWriteBack
  <2>2. FreePage \in Pages
    <3>1. Busy
      BY <1>1 DEF Busy
    <3>2. Len(lowReqs) < Slots
      BY <1>1, <1>2, <3>1, RoomForPage
    <3>3. map \in [LSAs -> Pages \cup {NoPage}] /\ IsSeq(lowReqs)
      BY <1>1, Types DEF LowReqsOK
    <3> QED
      BY <3>2, <3>3, FreePageIs
  <2>3. PICK p \in Pages : p = FreePage
    BY <2>2
  <2>4. PICK r : r = NandReq("PROGRAM", e, p)
    OBVIOUS
  <2>5. Appended /\ pc' = "fetch" /\ open' = open /\ ~ lowReqs'[Len(lowReqs) + 1].cqEn
    BY <1>1, <2>1, <2>3, <2>4, SelectNand
  <2>6. ToPost /\ ToPost'
    BY <1>1, <2>5 DEF ToPost
  <2> QED
    BY <1>1, <2>5, <2>6, PostOfNand
<1>3. CASE ~ dirty[e]
  <2>1. pc' = "fetch" /\ UNCHANGED <<lowReqs, open>>
    BY <1>3 DEF Miss, MustWriteBack
  <2>2. ToPost /\ ToPost'
    BY <1>1, <2>1 DEF ToPost
  <2> QED
    BY <1>1, <2>1, <2>2, PostStays
<1> QED
  BY <1>2, <1>3

LEMMA DataReadFromNandPosts ==
  ASSUME PostInv, DataReadFromNand
  PROVE  PostOK'
<1>1. TypeInv /\ PostOK /\ pc = "fetch" /\ cmd' = cmd /\ sliceReqQ' = sliceReqQ
  BY DEF PostInv, DataReadFromNand
<1>2. CASE NeedsRead /\ map[req.lsa] # NoPage
  <2>1. Select(NandReq("FETCH", entry, map[req.lsa]), "dma")
    BY <1>2 DEF DataReadFromNand
  <2>2. map[req.lsa] \in Pages /\ entry \in Entry
    <3>1. req.lsa \in LSAs
      BY <1>1, InHandIs DEF Busy
    <3> QED
      BY <1>1, <1>2, <3>1, Types
  <2>3. PICK p \in Pages : p = map[req.lsa]
    BY <2>2
  <2>4. PICK e \in Entry : e = entry
    BY <2>2
  <2>5. PICK r : r = NandReq("FETCH", e, p)
    OBVIOUS
  <2>6. Appended /\ pc' = "dma" /\ open' = open /\ ~ lowReqs'[Len(lowReqs) + 1].cqEn
    BY <1>1, <2>1, <2>3, <2>4, <2>5, SelectNand
  <2>7. ToPost /\ ToPost'
    BY <1>1, <2>6 DEF ToPost
  <2> QED
    BY <1>1, <2>6, <2>7, PostOfNand
<1>3. CASE ~ (NeedsRead /\ map[req.lsa] # NoPage)
  <2>1. pc' = "dma" /\ UNCHANGED <<lowReqs, open>>
    BY <1>3 DEF DataReadFromNand
  <2>2. ToPost /\ ToPost'
    BY <1>1, <2>1 DEF ToPost
  <2> QED
    BY <1>1, <2>1, <2>2, PostStays
<1> QED
  BY <1>2, <1>3

\* The DMA of the slice in hand is handed to the lower layer.
LEMMA SelectDma ==
  ASSUME TypeInv, SliceToDma
  PROVE  /\ Appended /\ pc = "dma" /\ Busy /\ pc' = "slices" /\ UNCHANGED <<cmd, sliceReqQ, map, nand, disk, lsaOf>>
         /\ req' = NoReq /\ entry' = 0
         /\ LET n == Len(lowReqs)
                now == Alone(lowReqs, entry)
                q == lowReqs'[n + 1]
            IN  /\ q.id = req.id /\ q.val = req.val /\ q.cqEn = req.cqEn /\ q.lsa = req.lsa /\ q.num = req.num
                /\ q.moves = req.moves /\ q.expect = req.expect /\ q.entry = entry /\ q.page = req.page
                /\ q.code = IF req.code = "WRITE" THEN "RxDMA" ELSE "TxDMA"
                /\ q.got = IF now /\ q.code = "TxDMA" THEN Got(q, data[entry]) ELSE <<>>
                /\ \A e \in Entry : data'[e] = IF now /\ e = entry THEN Received(q, data[e]) ELSE data[e]
                /\ open' = IF now /\ req.cqEn THEN open \ {req.id} ELSE open
<1>1. /\ pc = "dma" /\ Select(DmaOf(req, entry), "slices") /\ req' = NoReq /\ entry' = 0
      /\ UNCHANGED <<cmd, sliceReqQ, map, nand, disk, lsaOf>>
  BY Zenon DEF SliceToDma, DmaOf
<1>2. Busy /\ entry \in Entry /\ IsReq(req)
  BY <1>1, InHandIs, Types DEF Busy, NextSlice
<1>3. PICK r : r = DmaOf(req, entry)
  OBVIOUS
<1>4. /\ IsReq(r) /\ r.code = IF req.code = "WRITE" THEN "RxDMA" ELSE "TxDMA"
      /\ r.id = req.id /\ r.val = req.val /\ r.cqEn = req.cqEn /\ r.lsa = req.lsa
      /\ r.num = req.num /\ r.moves = req.moves /\ r.expect = req.expect /\ r.entry = entry
      /\ r.page = req.page /\ r.got = req.got
  BY <1>2, <1>3, DmaOfIs
<1>5. LowReq(r) /\ r.got = <<>>
  BY <1>2, <1>3, DmaOfReq
<1>6. IsDma(r)
  BY <1>4 DEF IsDma
<1> DEFINE now == Alone(lowReqs, r.entry)
           n == Len(lowReqs)
<1>7. /\ pc' = "slices" /\ IsSeq(lowReqs') /\ n \in Nat /\ Len(lowReqs') = n + 1
      /\ \A i \in 1 .. n : lowReqs'[i] = lowReqs[i]
      /\ SameButGot(lowReqs'[n + 1], r)
      /\ lowReqs'[n + 1].got = IF now /\ r.code = "TxDMA" THEN Got(r, data[r.entry]) ELSE r.got
      /\ \A e \in Entry : data'[e] = IF now /\ e = r.entry THEN Received(r, data[e]) ELSE data[e]
      /\ open' = IF now /\ r.cqEn THEN open \ {r.id} ELSE open
  <2>1. IsReq(r) /\ r.entry \in Entry /\ (r.code = "RxDMA" => r.val \in Val \cup {NONE})
    BY <1>5, ReceivedVal DEF LowReq
  <2>2. IsSeq(lowReqs) /\ data \in [Entry -> Content]
    BY Types DEF LowReqsOK
  <2>3. Select(r, "slices")
    BY <1>1, <1>3
  <2> QED
    BY <1>6, <2>1, <2>2, <2>3, SelectIs
<1>8. PICK q : q = lowReqs'[n + 1]
  OBVIOUS
<1>9. SameButGot(q, r)
  BY <1>7, <1>8
<1>10. /\ \A d : Got(q, d) = Got(r, d)
       /\ \A d : Received(q, d) = Received(r, d)
  <2>1. q.moves = r.moves /\ q.code = r.code /\ q.val = r.val
    BY <1>9 DEF SameButGot
  <2> QED
    BY <2>1, Zenon DEF Got, Received
<1>11. Appended
  BY <1>7 DEF Appended
<1>12. /\ q.id = req.id /\ q.val = req.val /\ q.cqEn = req.cqEn /\ q.lsa = req.lsa /\ q.num = req.num
       /\ q.moves = req.moves /\ q.expect = req.expect /\ q.entry = entry /\ q.page = req.page
       /\ q.code = IF req.code = "WRITE" THEN "RxDMA" ELSE "TxDMA"
  BY <1>4, <1>9 DEF SameButGot
<1>13. q.got = IF Alone(lowReqs, entry) /\ q.code = "TxDMA" THEN Got(q, data[entry]) ELSE <<>>
  <2>1. q.got = IF now /\ r.code = "TxDMA" THEN Got(r, data[r.entry]) ELSE <<>>
    BY <1>5, <1>7, <1>8
  <2>2. r.entry = entry /\ q.code = r.code
    BY <1>4, <1>9 DEF SameButGot
  <2> QED
    BY <2>1, <2>2, <1>10
<1>14. \A e \in Entry : data'[e] = IF Alone(lowReqs, entry) /\ e = entry THEN Received(q, data[e]) ELSE data[e]
  BY <1>4, <1>7, <1>10
<1>15. open' = IF Alone(lowReqs, entry) /\ req.cqEn THEN open \ {req.id} ELSE open
  BY <1>4, <1>7
<1> QED
  BY <1>1, <1>2, <1>7, <1>8, <1>11, <1>12, <1>13, <1>14, <1>15

LEMMA SliceToDmaPosts ==
  ASSUME PostInv, SliceToDma
  PROVE  PostOK'
<1>1. TypeInv /\ PostOK
  BY DEF PostInv
<1>2. PICK n : n = Len(lowReqs)
  OBVIOUS
<1>3. PICK q : q = lowReqs'[n + 1]
  OBVIOUS
<1>4. PICK e : e = entry
  OBVIOUS
<1>5. /\ Appended /\ pc = "dma" /\ Busy /\ pc' = "slices" /\ cmd' = cmd /\ sliceReqQ' = sliceReqQ
      /\ q.id = req.id /\ q.cqEn = req.cqEn /\ q.entry = e
      /\ open' = IF Alone(lowReqs, e) /\ req.cqEn THEN open \ {req.id} ELSE open
  BY <1>1, <1>2, <1>3, <1>4, SelectDma
<1>6. req.id = cmd.id /\ (req.cqEn <=> sliceReqQ = <<>>) /\ req # NoReq
  <2>1. req # NoReq
    BY <1>1, <1>5, InHandIs
  <2>2. Len(sliceReqQ) = 0 <=> sliceReqQ = <<>>
    BY <1>1, Types, SeqSizes DEF LowReqsOK
  <2> QED
    BY <1>1, <2>1, <2>2, WhoPosts
<1>7. ToPost /\ (ToPost' <=> ~ req.cqEn)
  BY <1>5, <1>6 DEF ToPost
<1>8. /\ n \in Nat /\ Len(lowReqs') = n + 1 /\ \A i \in 1 .. n : lowReqs'[i] = lowReqs[i]
  BY <1>2, <1>5 DEF Appended
<1>9. /\ \A i \in 1 .. n : First(lowReqs', i) <=> First(lowReqs, i)
      /\ First(lowReqs', n + 1) <=> Alone(lowReqs, e)
  <2>1. DOMAIN lowReqs = 1 .. n
    BY <1>1, <1>2, Types
  <2> QED
    BY <1>2, <1>3, <1>5, <2>1, AppendedOrder
<1>10. \A i \in 1 .. n : WaitsToPost(i)' <=> WaitsToPost(i)
  BY <1>8, <1>9 DEF WaitsToPost, Waits
<1>11. WaitsToPost(n + 1)' <=> ~ Alone(lowReqs, e) /\ req.cqEn
  BY <1>3, <1>5, <1>9 DEF WaitsToPost, Waits
<1>12. \A i : i \in 1 .. n + 1 <=> i \in 1 .. n \/ i = n + 1
  BY <1>8
<1>13. /\ cmd.id \in open
       /\ \A i \in 1 .. n : WaitsToPost(i) => lowReqs[i].id \in open /\ lowReqs[i].id # cmd.id
       /\ \A i, j \in 1 .. n : WaitsToPost(i) /\ WaitsToPost(j) /\ lowReqs[i].id = lowReqs[j].id => i = j
       /\ \A id \in open : id = cmd.id \/ \E i \in 1 .. n : WaitsToPost(i) /\ lowReqs[i].id = id
  BY <1>1, <1>2, <1>7 DEF PostOK
<1>14. n + 1 \notin 1 .. n /\ lowReqs'[n + 1].id = cmd.id
  BY <1>3, <1>5, <1>6, <1>8
<1>15. ToPost' => cmd'.id \in open'
  BY <1>5, <1>7, <1>13
<1>16. \A i \in 1 .. n + 1 : WaitsToPost(i)' => lowReqs'[i].id \in open' /\ (ToPost' => lowReqs'[i].id # cmd'.id)
  <2>1. SUFFICES ASSUME NEW i \in 1 .. n + 1, WaitsToPost(i)'
                 PROVE  lowReqs'[i].id \in open' /\ (ToPost' => lowReqs'[i].id # cmd'.id)
    OBVIOUS
  <2>2. CASE i = n + 1
    BY <2>1, <2>2, <1>5, <1>7, <1>11, <1>13, <1>14
  <2>3. CASE i \in 1 .. n
    BY <2>1, <2>3, <1>5, <1>6, <1>8, <1>10, <1>13
  <2> QED
    BY <2>2, <2>3, <1>12
<1>17. \A i, j \in 1 .. n + 1 :
         WaitsToPost(i)' /\ WaitsToPost(j)' /\ lowReqs'[i].id = lowReqs'[j].id => i = j
  <2>1. \A i \in 1 .. n : WaitsToPost(i)' => lowReqs'[i].id # cmd.id
    BY <1>8, <1>10, <1>13
  <2>2. \A i, j \in 1 .. n : WaitsToPost(i)' /\ WaitsToPost(j)' /\ lowReqs'[i].id = lowReqs'[j].id => i = j
    BY <1>8, <1>10, <1>13
  <2> QED
    BY <1>12, <1>14, <2>1, <2>2
<1>18. \A id \in open' : \/ ToPost' /\ id = cmd'.id
                         \/ \E i \in 1 .. n + 1 : WaitsToPost(i)' /\ lowReqs'[i].id = id
  <2>1. SUFFICES ASSUME NEW id \in open'
                 PROVE  \/ ToPost' /\ id = cmd'.id
                        \/ \E i \in 1 .. n + 1 : WaitsToPost(i)' /\ lowReqs'[i].id = id
    OBVIOUS
  <2>2. id \in open /\ (Alone(lowReqs, e) /\ req.cqEn => id # cmd.id)
    BY <2>1, <1>5, <1>6
  <2>3. CASE id = cmd.id
    <3>1. CASE req.cqEn
      <4>1. WaitsToPost(n + 1)' /\ n + 1 \in 1 .. n + 1
        BY <2>2, <2>3, <3>1, <1>8, <1>11
      <4> QED
        BY <2>3, <4>1, <1>14
    <3>2. CASE ~ req.cqEn
      BY <2>3, <3>2, <1>5, <1>7
    <3> QED
      BY <3>1, <3>2
  <2>4. CASE id # cmd.id
    <3>1. PICK i \in 1 .. n : WaitsToPost(i) /\ lowReqs[i].id = id
      BY <2>2, <2>4, <1>13
    <3>2. WaitsToPost(i)' /\ lowReqs'[i].id = id /\ i \in 1 .. n + 1
      BY <3>1, <1>8, <1>10, <1>12
    <3> QED
      BY <3>2
  <2> QED
    BY <2>3, <2>4
<1> QED
  BY <1>8, <1>15, <1>16, <1>17, <1>18 DEF PostOK

LEMMA TakeCommandPosts ==
  ASSUME PostInv, NEW c \in Commands, TakeCommand(c)
  PROVE  PostOK'
<1>1. /\ TypeInv /\ PostOK /\ pc = "idle" /\ c.id \notin open /\ open' = open \cup {c.id}
      /\ sliceReqQ' = [k \in 1 .. SliceCount(c) |-> SliceReq(c, k)]
      /\ pc' = "slices" /\ cmd' = c /\ lowReqs' = lowReqs
  BY DEF PostInv, TakeCommand
<1>2. ~ ToPost /\ ToPost'
  <2>1. 1 \in 1 .. SliceCount(c)
    BY CommandsAre, SlicesAre
  <2>2. DOMAIN sliceReqQ' = 1 .. SliceCount(c)
    BY <1>1
  <2>3. 1 \in DOMAIN sliceReqQ' /\ 1 \notin DOMAIN <<>>
    BY <2>1, <2>2
  <2>4. sliceReqQ' # <<>>
    BY <2>3, Zenon
  <2> QED
    BY <1>1, <2>4 DEF ToPost
<1>3. \A i : WaitsToPost(i)' <=> WaitsToPost(i)
  BY <1>1 DEF WaitsToPost, Waits, First
<1> QED
  BY <1>1, <1>2, <1>3 DEF PostOK

LEMMA EndRequestPosts ==
  ASSUME PostInv, NEW i \in 1 .. Len(lowReqs), EndRequest(i)
  PROVE  PostOK'
<1>1. PICK n : n = Len(lowReqs)
  OBVIOUS
<1>2. /\ TypeInv /\ PostOK /\ n \in Nat \ {0} /\ Len(lowReqs') = n - 1 /\ i \in 1 .. n
      /\ \A j \in 1 .. n - 1 : SameButGot(lowReqs'[j], lowReqs[After(j, i)])
      /\ \A id : id \in open' <=> /\ id \in open
                                  /\ \A j \in 1 .. n : Adjacent(i, j) /\ lowReqs[j].cqEn => lowReqs[j].id # id
      /\ UNCHANGED <<pc, cmd, sliceReqQ>>
  BY <1>1, EndIs DEF PostInv
<1>3. /\ \A j \in 1 .. n - 1 : After(j, i) \in 1 .. n /\ After(j, i) # i
      /\ \A j, k \in 1 .. n - 1 : After(j, i) = After(k, i) => j = k
      /\ \A m \in 1 .. n : m # i => \E j \in 1 .. n - 1 : After(j, i) = m
  <2>1. n \in Nat /\ i \in 1 .. n
    BY <1>2
  <2>2. /\ \A j \in 1 .. n - 1 : After(j, i) \in 1 .. n /\ After(j, i) # i
        /\ \A j, k \in 1 .. n - 1 : /\ After(j, i) < After(k, i) <=> j < k
                                    /\ After(j, i) = After(k, i) => j = k
        /\ \A m \in 1 .. n : m # i => \E j \in 1 .. n - 1 : After(j, i) = m
    BY <2>1, AfterIs, Zenon
  <2> QED
    BY <2>2
<1>4. \A j \in 1 .. n - 1 :
        First(lowReqs', j) <=> First(lowReqs, After(j, i)) \/ Adjacent(i, After(j, i))
  BY <1>1, <1>2, EndRemoves, RemovedOrder
<1>5. \A m \in 1 .. n : Adjacent(i, m) => Waits(m) /\ m # i
  <2>1. SUFFICES ASSUME NEW m \in 1 .. n, Adjacent(i, m) PROVE Waits(m) /\ m # i
    OBVIOUS
  <2>2. i < m /\ lowReqs[i].entry = lowReqs[m].entry
    BY <2>1 DEF Adjacent
  <2>3. i \in 1 .. m - 1
    BY <1>2, <2>2
  <2> QED
    BY <2>2, <2>3 DEF Waits, First
<1>6. First(lowReqs, i)
  BY <1>1, <1>2, EndIs
<1>7. \A j \in 1 .. n - 1 : /\ lowReqs'[j].id = lowReqs[After(j, i)].id
                            /\ lowReqs'[j].cqEn = lowReqs[After(j, i)].cqEn
  BY <1>2 DEF SameButGot
<1>8. \A j \in 1 .. n - 1 :
        WaitsToPost(j)' <=> WaitsToPost(After(j, i)) /\ ~ Adjacent(i, After(j, i))
  BY <1>4, <1>7 DEF WaitsToPost, Waits
<1>9. ToPost' <=> ToPost
  BY <1>2 DEF ToPost
<1>10. /\ ToPost => cmd.id \in open
       /\ \A m \in 1 .. n : WaitsToPost(m) => lowReqs[m].id \in open /\ (ToPost => lowReqs[m].id # cmd.id)
       /\ \A m, k \in 1 .. n : WaitsToPost(m) /\ WaitsToPost(k) /\ lowReqs[m].id = lowReqs[k].id => m = k
       /\ \A id \in open : \/ ToPost /\ id = cmd.id
                           \/ \E m \in 1 .. n : WaitsToPost(m) /\ lowReqs[m].id = id
  BY <1>1, <1>2 DEF PostOK
<1>11. \A m \in 1 .. n : Adjacent(i, m) /\ lowReqs[m].cqEn => WaitsToPost(m)
  BY <1>5 DEF WaitsToPost
<1>12. ToPost' => cmd'.id \in open'
  BY <1>2, <1>9, <1>10, <1>11
<1>13. \A j \in 1 .. n - 1 : WaitsToPost(j)' => lowReqs'[j].id \in open' /\ (ToPost' => lowReqs'[j].id # cmd'.id)
  <2>1. SUFFICES ASSUME NEW j \in 1 .. n - 1, WaitsToPost(j)'
                 PROVE  lowReqs'[j].id \in open' /\ (ToPost' => lowReqs'[j].id # cmd'.id)
    OBVIOUS
  <2>2. PICK m \in 1 .. n : m = After(j, i)
    BY <1>3
  <2>3. WaitsToPost(m) /\ ~ Adjacent(i, m) /\ lowReqs'[j].id = lowReqs[m].id
    BY <2>1, <2>2, <1>7, <1>8
  <2>4. \A k \in 1 .. n : Adjacent(i, k) /\ lowReqs[k].cqEn => lowReqs[k].id # lowReqs[m].id
    BY <2>3, <1>10, <1>11
  <2> QED
    BY <2>3, <2>4, <1>2, <1>9, <1>10
<1>14. \A j, k \in 1 .. n - 1 :
         WaitsToPost(j)' /\ WaitsToPost(k)' /\ lowReqs'[j].id = lowReqs'[k].id => j = k
  <2>1. SUFFICES ASSUME NEW j \in 1 .. n - 1, NEW k \in 1 .. n - 1, WaitsToPost(j)', WaitsToPost(k)',
                        lowReqs'[j].id = lowReqs'[k].id
                 PROVE  j = k
    OBVIOUS
  <2>2. After(j, i) \in 1 .. n /\ After(k, i) \in 1 .. n
    BY <1>3
  <2>3. WaitsToPost(After(j, i)) /\ WaitsToPost(After(k, i)) /\ lowReqs[After(j, i)].id = lowReqs[After(k, i)].id
    BY <2>1, <1>7, <1>8
  <2>4. After(j, i) = After(k, i)
    BY <2>2, <2>3, <1>10
  <2> QED
    BY <2>4, <1>3
<1>15. \A id \in open' : \/ ToPost' /\ id = cmd'.id
                         \/ \E j \in 1 .. n - 1 : WaitsToPost(j)' /\ lowReqs'[j].id = id
  <2>1. SUFFICES ASSUME NEW id \in open', ~ (ToPost /\ id = cmd.id)
                 PROVE  \E j \in 1 .. n - 1 : WaitsToPost(j)' /\ lowReqs'[j].id = id
    BY <1>2, <1>9
  <2>2. id \in open /\ \A m \in 1 .. n : Adjacent(i, m) /\ lowReqs[m].cqEn => lowReqs[m].id # id
    BY <2>1, <1>2
  <2>3. PICK m \in 1 .. n : WaitsToPost(m) /\ lowReqs[m].id = id
    BY <2>1, <2>2, <1>10
  <2>4. m # i /\ ~ Adjacent(i, m)
    BY <2>2, <2>3, <1>6 DEF WaitsToPost, Waits
  <2>5. PICK j \in 1 .. n - 1 : After(j, i) = m
    BY <2>4, <1>3
  <2> QED
    BY <2>3, <2>4, <2>5, <1>7, <1>8
<1> QED
  BY <1>2, <1>12, <1>13, <1>14, <1>15 DEF PostOK

LEMMA OthersPost ==
  ASSUME PostInv, SliceReqQEmpty \/ GetFromSliceReqQ \/ (\E e \in Entry : Hit(e)) \/ UNCHANGED vars
  PROVE  PostOK'
<1>1. TypeInv /\ PostOK
  BY DEF PostInv
<1>2. CASE SliceReqQEmpty
  <2>1. pc = "slices" /\ sliceReqQ = <<>> /\ pc' = "idle" /\ UNCHANGED <<lowReqs, open>>
    BY <1>2 DEF SliceReqQEmpty, deviceVars
  <2>2. ~ ToPost /\ ~ ToPost'
    BY <2>1 DEF ToPost
  <2> QED
    BY <1>1, <2>1, <2>2, PostStays
<1>3. CASE GetFromSliceReqQ
  <2>1. pc = "slices" /\ sliceReqQ # <<>> /\ pc' = "find" /\ UNCHANGED <<cmd, lowReqs, open>>
    BY <1>3 DEF GetFromSliceReqQ
  <2>2. ToPost /\ ToPost'
    BY <2>1 DEF ToPost
  <2> QED
    BY <1>1, <2>1, <2>2, PostStays
<1>4. CASE \E e \in Entry : Hit(e)
  <2>1. pc = "find" /\ pc' = "dma" /\ UNCHANGED <<cmd, lowReqs, open>>
    BY <1>4 DEF Hit
  <2>2. ToPost /\ ToPost'
    BY <2>1 DEF ToPost
  <2> QED
    BY <1>1, <2>1, <2>2, PostStays
<1>5. CASE UNCHANGED vars
  <2>1. UNCHANGED <<pc, cmd, sliceReqQ, lowReqs, open>>
    BY <1>5 DEF vars, deviceVars
  <2>2. ToPost' <=> ToPost
    BY <2>1 DEF ToPost
  <2> QED
    BY <1>1, <2>1, <2>2, PostStays
<1> QED
  BY <1>2, <1>3, <1>4, <1>5

\* Sets of one element, and of none.
LEMMA CountOfOne ==
  ASSUME NEW S, NEW p, \A x \in S : x = p
  PROVE  Cardinality(S) = IF p \in S THEN 1 ELSE 0
<1>1. CASE p \in S
  <2>1. S = {p}
    BY <1>1
  <2> QED
    BY <1>1, <2>1, FS_Singleton
<1>2. CASE p \notin S
  <2>1. S = {}
    BY <1>2
  <2> QED
    BY <1>2, <2>1, FS_EmptySet
<1> QED
  BY <1>1, <1>2

\* Counted, that is the property.
LEMMA OnePost == PostInv => OneCompletionEach
<1>1. SUFFICES ASSUME TypeInv, PostOK, NEW id \in CommandIds
               PROVE  WillPost(id) = IF id \in open THEN 1 ELSE 0
  BY DEF PostInv, OneCompletionEach
<1> DEFINE n == Len(lowReqs)
           m == Len(sliceReqQ)
           A == {k \in DOMAIN sliceReqQ : sliceReqQ[k].id = id /\ sliceReqQ[k].cqEn}
           B == req # NoReq /\ req.id = id /\ req.cqEn
           W == {i \in DOMAIN lowReqs : Waits(i) /\ lowReqs[i].id = id /\ lowReqs[i].cqEn}
<1>2. /\ n \in Nat /\ m \in Nat /\ DOMAIN lowReqs = 1 .. n /\ DOMAIN sliceReqQ = 1 .. m
      /\ QueueOK /\ (m = 0 <=> sliceReqQ = <<>>)
  BY <1>1, Types, SeqSizes DEF LowReqsOK
<1>3. /\ \A j \in 1 .. m : sliceReqQ[j].id = cmd.id /\ (sliceReqQ[j].cqEn <=> j = m)
      /\ req # NoReq => Busy /\ req.id = cmd.id /\ (req.cqEn <=> m = 0)
  BY <1>1, WhoPosts
<1>4. ToPost <=> m # 0 \/ req # NoReq
  <2>1. pc \in {"idle", "slices", "find", "fetch", "dma"}
    BY <1>1 DEF TypeInv, TypeOK
  <2> QED
    BY <1>2, <2>1 DEF ToPost, QueueOK, Busy
<1>5. Cardinality(A) = IF ToPost /\ id = cmd.id /\ m # 0 THEN 1 ELSE 0
  <2>1. \A x \in A : x = m
    BY <1>2, <1>3
  <2>2. m \in A <=> ToPost /\ id = cmd.id /\ m # 0
    <3>1. m \in A <=> m \in 1 .. m /\ sliceReqQ[m].id = id /\ sliceReqQ[m].cqEn
      BY <1>2
    <3>2. m \in 1 .. m <=> m # 0
      BY <1>2
    <3>3. m # 0 => ToPost
      BY <1>4
    <3> HIDE DEF A
    <3> QED
      BY <1>3, <3>1, <3>2, <3>3
  <2> HIDE DEF A
  <2> QED
    BY <2>1, <2>2, CountOfOne
<1>6. B <=> ToPost /\ id = cmd.id /\ m = 0
  BY <1>3, <1>4
<1>7. \A i : i \in W <=> i \in 1 .. n /\ WaitsToPost(i) /\ lowReqs[i].id = id
  BY <1>2 DEF WaitsToPost
<1> HIDE DEF A, B, W, n, m
<1>8. /\ \A i, j \in W : i = j
      /\ \A i \in W : id \in open /\ ~ (ToPost /\ id = cmd.id)
      /\ id \in open => (ToPost /\ id = cmd.id) \/ W # {}
      /\ ToPost => cmd.id \in open
  BY <1>1, <1>7 DEF PostOK, n
<1>9. Cardinality(W) = IF W # {} THEN 1 ELSE 0
  <2>1. CASE W = {}
    BY <2>1, FS_EmptySet
  <2>2. CASE W # {}
    <3>1. PICK p \in W : TRUE
      BY <2>2
    <3>2. \A x \in W : x = p
      BY <1>8, <3>1
    <3> QED
      BY <2>2, <3>1, <3>2, CountOfOne
  <2> QED
    BY <2>1, <2>2
<1>10. WillPost(id) = Cardinality(A) + (IF B THEN 1 ELSE 0) + Cardinality(W)
  BY Zenon DEF WillPost, A, B, W
<1>11. CASE ToPost /\ id = cmd.id
  <2>1. id \in open /\ W = {}
    BY <1>8, <1>11
  <2>2. m = 0 \/ m # 0
    OBVIOUS
  <2> QED
    BY <1>5, <1>6, <1>9, <1>10, <1>11, <2>1, <2>2
<1>12. CASE ~ (ToPost /\ id = cmd.id)
  <2>1. id \in open <=> W # {}
    BY <1>8, <1>12
  <2> QED
    BY <1>5, <1>6, <1>9, <1>10, <1>12, <2>1
<1> QED
  BY <1>11, <1>12

LEMMA PostAlways == Spec => []PostInv
<1>1. Init => PostInv
  <2>1. Init => PostOK
    BY DEF Init, PostOK, ToPost
  <2> QED
    BY <2>1, InitTypes DEF PostInv
<1>2. PostInv /\ TypeInv' /\ [Next]_vars => PostInv'
  BY Steps, OthersPost, MissPosts, DataReadFromNandPosts, SliceToDmaPosts, TakeCommandPosts, EndRequestPosts
     DEF PostInv
<1> QED
  BY <1>1, <1>2, TypesAlways, PTL DEF Spec

\* Every command the host waits for has exactly one completion to come and no other
\* command has one, whatever the order in which the slices end and the requests of
\* the entries are released.
THEOREM OneCompletionAlways == Spec => []OneCompletionEach
BY PostAlways, OnePost, PTL

\* Units and blocks.
LEMMA UnitsAre ==
  ASSUME NEW u \in Units
  PROVE  /\ u \in Nat /\ LBA_SIZE \in Nat \ {0} /\ u < LBA_SIZE + LBA_SIZE
         /\ u \div LBA_SIZE = IF u < LBA_SIZE THEN 0 ELSE 1
         /\ u \div LBA_SIZE \in 0 .. NVME_BLOCKS_PER_SLICE - 1
<1>1. LBA_SIZE \in Nat \ {0} /\ NVME_BLOCKS_PER_SLICE \in {1, 2}
  BY SizesAssumption
<1>2. u \in Nat /\ u < LBA_SIZE + LBA_SIZE /\ (NVME_BLOCKS_PER_SLICE = 1 => u < LBA_SIZE)
  <2>1. CASE NVME_BLOCKS_PER_SLICE = 1
    BY <1>1, <2>1 DEF Units
  <2>2. CASE NVME_BLOCKS_PER_SLICE = 2
    BY <1>1, <2>2 DEF Units
  <2> QED
    BY <1>1, <2>1, <2>2
<1>3. 0 * LBA_SIZE = 0 /\ 1 * LBA_SIZE = LBA_SIZE
  BY <1>1
<1>4. CASE u < LBA_SIZE
  <2>1. u \div LBA_SIZE = 0
    BY <1>1, <1>2, <1>3, <1>4, DivIs
  <2> QED
    BY <1>1, <1>2, <1>4, <2>1
<1>5. CASE ~ u < LBA_SIZE
  <2>1. u \div LBA_SIZE = 1
    <3>1. 1 * LBA_SIZE <= u /\ u < 1 * LBA_SIZE + LBA_SIZE
      BY <1>1, <1>2, <1>3, <1>5
    <3> QED
      BY <1>1, <1>2, <3>1, DivIs
  <2> QED
    BY <1>1, <1>2, <1>5, <2>1
<1> QED
  BY <1>4, <1>5

LEMMA BlockOfUnit ==
  ASSUME NEW u \in Units, NEW l \in LSAs
  PROVE  l * NVME_BLOCKS_PER_SLICE + u \div LBA_SIZE \in LBAs
<1>1. PICK b \in 0 .. NVME_BLOCKS_PER_SLICE - 1 : b = u \div LBA_SIZE
  BY UnitsAre
<1> QED
  BY <1>1 DEF LBAs

\* A unit of a slice of a command.
LEMMA UnitOfSlice ==
  ASSUME NEW c \in Commands, NEW k \in 1 .. SliceCount(c), NEW u \in Base(c, k) .. SliceEnd(c, k) - 1
  PROVE  /\ u \in Units
         /\ LogicalSliceAddr(c, k) * NVME_BLOCKS_PER_SLICE + u \div LBA_SIZE \in c.lba .. c.lba + c.nlb
         /\ (u - Base(c, k)) \div LBA_SIZE \in 0 .. NumOfNvmeBlock(c, k) - 1
         /\ (u - Base(c, k)) \div LBA_SIZE + NvmeBlockOffset(c, k) = u \div LBA_SIZE
<1> DEFINE n == NumOfNvmeBlock(c, k)
           o == NvmeBlockOffset(c, k)
           s == StartIndex(c, k)
           l == LogicalSliceAddr(c, k)
           v == u - Base(c, k)
           lb == l * NVME_BLOCKS_PER_SLICE
<1>1. u \in Units
  BY SliceWithinEntry
<1>2. /\ IsCommand(c) /\ c.lba \in Nat /\ c.nlb \in Nat /\ IsSlice(c, k, n, o, s, l)
  BY CommandsAre, SlicesAre DEF IsCommand
<1>3. /\ n \in {1, 2} /\ o \in {0, 1} /\ s \in Nat /\ l \in Nat /\ s + n <= c.nlb + 1 /\ lb + o = c.lba + s
      /\ NVME_BLOCKS_PER_SLICE \in Nat
  BY <1>2, SliceSizes, SizesAssumption DEF IsSlice, Blocks
<1>4. lb \in Nat
  BY <1>3
<1>5. Base(c, k) = (IF o = 0 THEN 0 ELSE LBA_SIZE) /\ SliceEnd(c, k) = Base(c, k) + IF n = 1 THEN LBA_SIZE ELSE LBA_SIZE + LBA_SIZE
  BY DEF Base, SliceEnd
<1>6. /\ u \in Nat /\ LBA_SIZE \in Nat \ {0} /\ u < LBA_SIZE + LBA_SIZE
      /\ u \div LBA_SIZE = IF u < LBA_SIZE THEN 0 ELSE 1
  BY <1>1, UnitsAre
<1>7. v \in Nat /\ v < (IF n = 1 THEN LBA_SIZE ELSE LBA_SIZE + LBA_SIZE) /\ u = v + IF o = 0 THEN 0 ELSE LBA_SIZE
  BY <1>3, <1>5, <1>6
<1>8. v \div LBA_SIZE = IF v < LBA_SIZE THEN 0 ELSE 1
  <2>1. 0 * LBA_SIZE = 0 /\ 1 * LBA_SIZE = LBA_SIZE
    BY <1>6
  <2>2. v < LBA_SIZE + LBA_SIZE
    BY <1>3, <1>6, <1>7
  <2> HIDE DEF v
  <2>3. CASE v < LBA_SIZE
    <3>1. v \div LBA_SIZE = 0
      BY <1>6, <1>7, <2>1, <2>3, DivIs
    <3> QED
      BY <2>3, <3>1
  <2>4. CASE ~ v < LBA_SIZE
    <3>1. 1 * LBA_SIZE <= v /\ v < 1 * LBA_SIZE + LBA_SIZE
      BY <1>6, <1>7, <2>1, <2>2, <2>4
    <3>2. v \div LBA_SIZE = 1
      BY <1>6, <1>7, <3>1, DivIs
    <3> QED
      BY <2>4, <3>2
  <2> QED
    BY <2>3, <2>4
<1> HIDE DEF v, n, o, s, lb
<1> DEFINE x == v \div LBA_SIZE
           y == u \div LBA_SIZE
<1>9. x = (IF v < LBA_SIZE THEN 0 ELSE 1) /\ y = IF u < LBA_SIZE THEN 0 ELSE 1
  BY <1>6, <1>8
<1> HIDE DEF x, y
<1>10. x \in 0 .. n - 1 /\ x + o = y
  BY <1>3, <1>6, <1>7, <1>9
<1>11. lb + y \in c.lba .. c.lba + c.nlb
  BY <1>2, <1>3, <1>4, <1>10
<1> QED
  BY <1>1, <1>10, <1>11 DEF x, y, v, n, o, lb, l

\* Every block of a command is in one of its slices.
LEMMA SliceOfBlock ==
  ASSUME NEW c \in Commands, NEW x \in 0 .. c.nlb
  PROVE  \E k \in 1 .. SliceCount(c) :
           StartIndex(c, k) <= x /\ x < StartIndex(c, k) + NumOfNvmeBlock(c, k)
<1> DEFINE n == SliceCount(c)
           P == {k \in 1 .. n : x < StartIndex(c, k) + NumOfNvmeBlock(c, k)}
<1>1. /\ n \in Nat \ {0} /\ c.nlb \in Nat
      /\ \A k \in 1 .. n : IsSlice(c, k, NumOfNvmeBlock(c, k), NvmeBlockOffset(c, k), StartIndex(c, k),
                                   LogicalSliceAddr(c, k))
  BY CommandsAre, SlicesAre DEF IsCommand
<1>2. n \in P
  <2>1. StartIndex(c, n) + NumOfNvmeBlock(c, n) = c.nlb + 1
    BY <1>1 DEF IsSlice, Blocks
  <2> QED
    BY <1>1, <2>1
<1>3. P \subseteq Nat
  BY <1>1
<1> HIDE DEF P
<1>4. PICK k \in P : \A m \in P : k <= m
  BY <1>2, <1>3, LeastNumber
<1>5. k \in 1 .. n /\ x < StartIndex(c, k) + NumOfNvmeBlock(c, k)
  BY <1>4 DEF P
<1>6. StartIndex(c, k) <= x
  <2>1. CASE k = 1
    BY <1>1, <1>5, <2>1 DEF IsSlice
  <2>2. CASE k # 1
    <3>1. k - 1 \in 1 .. n /\ k - 1 # n /\ (k - 1) + 1 = k /\ ~ k <= k - 1
      BY <1>1, <1>5, <2>2
    <3>2. k - 1 \notin P
      BY <1>4, <3>1
    <3>3. ~ x < StartIndex(c, k - 1) + NumOfNvmeBlock(c, k - 1)
      BY <3>1, <3>2 DEF P
    <3>4. StartIndex(c, k) = StartIndex(c, k - 1) + NumOfNvmeBlock(c, k - 1) /\ StartIndex(c, k) \in Nat
      BY <1>1, <1>5, <3>1 DEF IsSlice
    <3> QED
      BY <3>3, <3>4
  <2> QED
    BY <2>1, <2>2
<1> QED
  BY <1>5, <1>6

\* The slice that a unit of a block of the command is in.
LEMMA UnitInSlice ==
  ASSUME NEW c \in Commands, NEW l \in LSAs, NEW u \in Units,
         l * NVME_BLOCKS_PER_SLICE + u \div LBA_SIZE \in c.lba .. c.lba + c.nlb
  PROVE  \E k \in 1 .. SliceCount(c) : LogicalSliceAddr(c, k) = l /\ u \in Base(c, k) .. SliceEnd(c, k) - 1
<1> DEFINE b == u \div LBA_SIZE
           x == l * NVME_BLOCKS_PER_SLICE + b - c.lba
<1>1. /\ c.lba \in Nat /\ c.nlb \in Nat /\ IsCommand(c)
      /\ l \in Nat /\ u \in Nat /\ LBA_SIZE \in Nat \ {0} /\ u < LBA_SIZE + LBA_SIZE
      /\ b = (IF u < LBA_SIZE THEN 0 ELSE 1) /\ b \in 0 .. NVME_BLOCKS_PER_SLICE - 1
      /\ NVME_BLOCKS_PER_SLICE \in Nat
  BY CommandsAre, UnitsAre, CommandsAssumption, SizesAssumption DEF IsCommand
<1> DEFINE lb == l * NVME_BLOCKS_PER_SLICE
<1>2. lb \in Nat
  BY <1>1
<1>3. x \in 0 .. c.nlb /\ lb + b = c.lba + x
  <2>1. lb + b \in c.lba .. c.lba + c.nlb
    OBVIOUS
  <2>2. x = lb + b - c.lba
    OBVIOUS
  <2> HIDE DEF lb, b, x
  <2> QED
    BY <1>1, <1>2, <2>1, <2>2
<1> HIDE DEF b, x, lb
<1>4. PICK k \in 1 .. SliceCount(c) : StartIndex(c, k) <= x /\ x < StartIndex(c, k) + NumOfNvmeBlock(c, k)
  BY <1>3, SliceOfBlock
<1> DEFINE n == NumOfNvmeBlock(c, k)
           o == NvmeBlockOffset(c, k)
           s == StartIndex(c, k)
           m == LogicalSliceAddr(c, k)
           mb == m * NVME_BLOCKS_PER_SLICE
           y == o + (x - s)
<1>5. /\ n \in {1, 2} /\ o \in {0, 1} /\ s \in Nat /\ m \in Nat /\ mb + o = c.lba + s
      /\ o + n <= NVME_BLOCKS_PER_SLICE
  BY <1>1, SliceSizes, SlicesAre DEF IsSlice
<1>6. mb \in Nat
  BY <1>1, <1>5
<1>7. s <= x /\ x < s + n
  BY <1>4
<1> HIDE DEF n, o, s, mb
<1>8. y \in 0 .. NVME_BLOCKS_PER_SLICE - 1 /\ y \in o .. o + n - 1 /\ mb + y = lb + b
  BY <1>1, <1>2, <1>3, <1>5, <1>6, <1>7
<1> HIDE DEF y, m
<1>9. m = l /\ y = b
  <2>1. m * NVME_BLOCKS_PER_SLICE + y = l * NVME_BLOCKS_PER_SLICE + b
    BY <1>8 DEF mb, lb
  <2>2. l \in Nat /\ m \in Nat /\ y \in 0 .. NVME_BLOCKS_PER_SLICE - 1 /\ b \in 0 .. NVME_BLOCKS_PER_SLICE - 1
    BY <1>1, <1>5, <1>8
  <2> QED
    <3>1. PICK i \in Nat : i = m
      BY <2>2
    <3>2. PICK r \in 0 .. NVME_BLOCKS_PER_SLICE - 1 : r = y
      BY <2>2
    <3>3. PICK t \in 0 .. NVME_BLOCKS_PER_SLICE - 1 : t = b
      BY <2>2
    <3>4. i * NVME_BLOCKS_PER_SLICE + r = l * NVME_BLOCKS_PER_SLICE + t
      BY <2>1, <3>1, <3>2, <3>3
    <3>5. i = l /\ r = t
      BY <2>2, <3>4, SameSlice
    <3> QED
      BY <3>1, <3>2, <3>3, <3>5
<1>10. Base(c, k) = (IF o = 0 THEN 0 ELSE LBA_SIZE) /\ SliceEnd(c, k) = Base(c, k) + IF n = 1 THEN LBA_SIZE ELSE LBA_SIZE + LBA_SIZE
  BY DEF Base, SliceEnd, o, n
<1>11. u \in Base(c, k) .. SliceEnd(c, k) - 1
  BY <1>1, <1>5, <1>8, <1>9, <1>10
<1> QED
  BY <1>9, <1>11 DEF m

-----------------------------------------------------------------------------
\* What is pending.
LEMMA SliceUnit ==
  ASSUME NEW l, NEW u \in Units
  PROVE  Slice(l)[u] = disk[l * NVME_BLOCKS_PER_SLICE + u \div LBA_SIZE]
BY DEF Slice

LEMMA CurIs ==
  ASSUME NEW x, NEW y, NEW l,
         UNCHANGED disk, \A u \in Units : Pend(l, u) => Pend(l, u)',
         \A u \in Units : ~ Pend(l, u) /\ Agrees(x[u], Slice(l)[u]) => Agrees(y[u], Slice(l)[u]),
         CurOK(x, l)
  PROVE  CurOK(y, l)'
<1>1. \A u \in Units : Slice(l)'[u] = Slice(l)[u]
  BY DEF Slice
<1> QED
  BY <1>1 DEF CurOK, Agrees

-----------------------------------------------------------------------------
\* The flow.  w[i] is what the entry of request i holds when that request has run,
\* prg what each page holds when the programs on the way have run, and fin what each
\* entry holds in the end.

\* A request is appended: x is what its entry holds when it has run.
FlowStep(n, q, e, x, w, prg, fin, w1, prg1, fin1) ==
  /\ Appended /\ nand' = nand
  /\ n = Len(lowReqs) /\ q = lowReqs'[n + 1] /\ e \in Entry /\ e = q.entry
  /\ FlowOK(w, prg, fin) /\ fin \in [Entry -> Content]
  /\ x = IF q.code = "FETCH" THEN prg[q.page] ELSE Received(q, fin[e])
  /\ w1 = [i \in 1 .. n + 1 |-> IF i = n + 1 THEN x ELSE w[i]]
  /\ fin1 = [fin EXCEPT ![e] = x]
  /\ q.code # "PROGRAM" => prg1 = prg
  /\ q.code = "PROGRAM" => /\ q.page \in Pages /\ prg1[q.page] = x
                           /\ \A p \in Pages : p # q.page => prg1[p] = prg[p]
                           /\ \A i \in 1 .. n : lowReqs[i].page # q.page
  /\ q.code = "FETCH" => data' = data
  /\ q.code # "FETCH" =>
       \A f \in Entry : data'[f] = IF Alone(lowReqs, e) /\ f = e THEN Received(q, data[f]) ELSE data[f]
  /\ ReadOK(q, x)

\* A request more keeps the flow.
LEMMA FlowAppend ==
  ASSUME TypeInv, NEW n, NEW q, NEW e, NEW x, NEW w, NEW prg, NEW fin, NEW w1, NEW prg1, NEW fin1,
         FlowStep(n, q, e, x, w, prg, fin, w1, prg1, fin1)
  PROVE  FlowOK(w1, prg1, fin1)'
<1>0. /\ Appended /\ nand' = nand
      /\ n = Len(lowReqs) /\ q = lowReqs'[n + 1] /\ e \in Entry /\ e = q.entry
      /\ FlowOK(w, prg, fin) /\ fin \in [Entry -> Content]
      /\ x = IF q.code = "FETCH" THEN prg[q.page] ELSE Received(q, fin[e])
      /\ w1 = [i \in 1 .. n + 1 |-> IF i = n + 1 THEN x ELSE w[i]]
      /\ fin1 = [fin EXCEPT ![e] = x]
      /\ q.code # "PROGRAM" => prg1 = prg
      /\ q.code = "PROGRAM" => /\ q.page \in Pages /\ prg1[q.page] = x
                               /\ \A p \in Pages : p # q.page => prg1[p] = prg[p]
                               /\ \A i \in 1 .. n : lowReqs[i].page # q.page
      /\ q.code = "FETCH" => data' = data
      /\ q.code # "FETCH" =>
           \A f \in Entry : data'[f] = IF Alone(lowReqs, e) /\ f = e THEN Received(q, data[f]) ELSE data[f]
      /\ ReadOK(q, x)
  BY DEF FlowStep
<1> USE <1>0
<1>1. /\ n \in Nat /\ Len(lowReqs') = n + 1 /\ \A i \in 1 .. n : lowReqs'[i] = lowReqs[i]
      /\ DOMAIN lowReqs = 1 .. n /\ DOMAIN lowReqs' = 1 .. n + 1
  BY Types, SeqSizes DEF Appended
<1>2. /\ \A i \in 1 .. n : First(lowReqs', i) <=> First(lowReqs, i)
      /\ First(lowReqs', n + 1) <=> Alone(lowReqs, e)
      /\ \A i, j \in 1 .. n : Adjacent(i, j)' <=> Adjacent(i, j)
      /\ \A i \in 1 .. n : /\ Adjacent(i, n + 1)' <=> LastOf(i) /\ lowReqs[i].entry = e
                           /\ ~ Adjacent(n + 1, i)'
                           /\ LastOf(i)' <=> LastOf(i) /\ lowReqs[i].entry # e
      /\ LastOf(n + 1)' /\ ~ Adjacent(n + 1, n + 1)'
      /\ \A f : Alone(lowReqs', f) <=> Alone(lowReqs, f) /\ e # f
  BY <1>1, AppendedOrder
<1>3. \A i : i \in 1 .. n + 1 <=> i \in 1 .. n \/ i = n + 1
  BY <1>1
<1>4. n + 1 \notin 1 .. n /\ w1[n + 1] = x /\ \A i \in 1 .. n : w1[i] = w[i]
  BY <1>1
<1>5. fin1[e] = x /\ \A f \in Entry : f # e => fin1[f] = fin[f]
  OBVIOUS
<1>6. \A i \in 1 .. n : lowReqs[i].entry \in Entry /\ (lowReqs[i].code \in {"FETCH", "PROGRAM"} => lowReqs[i].page \in Pages)
  <2>1. SUFFICES ASSUME NEW i \in 1 .. n
                 PROVE  lowReqs[i].entry \in Entry /\ (lowReqs[i].code \in {"FETCH", "PROGRAM"} => lowReqs[i].page \in Pages)
    OBVIOUS
  <2>2. LowReq(lowReqs[i])
    BY <2>1, Types DEF LowReqsOK
  <2> QED
    BY <2>2, ReceivedVal DEF LowReq, IsDma
<1>7. \A p \in Pages : ~ (q.code = "PROGRAM" /\ p = q.page) => prg1[p] = prg[p]
  OBVIOUS
<1>11. \A i \in 1 .. n + 1 : lowReqs'[i].code = "FETCH" => w1[i] = prg1[lowReqs'[i].page]
  <2>1. ASSUME NEW i \in 1 .. n, lowReqs[i].code = "FETCH"
        PROVE  w1[i] = prg1[lowReqs'[i].page]
    <3>1. w[i] = prg[lowReqs[i].page] /\ lowReqs[i].page \in Pages
      BY <2>1, <1>6 DEF FlowOK
    <3>2. ~ (q.code = "PROGRAM" /\ lowReqs[i].page = q.page)
      OBVIOUS
    <3> QED
      BY <3>1, <3>2, <1>1, <1>4, <1>7
  <2>2. q.code = "FETCH" => x = prg1[q.page]
    OBVIOUS
  <2>3. SUFFICES ASSUME NEW i \in 1 .. n + 1, lowReqs'[i].code = "FETCH"
                 PROVE  w1[i] = prg1[lowReqs'[i].page]
    OBVIOUS
  <2>4. CASE i = n + 1
    BY <2>2, <2>3, <2>4, <1>4
  <2>5. CASE i \in 1 .. n
    BY <2>1, <2>3, <2>5, <1>1
  <2> QED
    BY <2>4, <2>5, <1>3
<1>12. \A i \in 1 .. n + 1 : lowReqs'[i].code # "FETCH" /\ First(lowReqs', i) => w1[i] = data'[lowReqs'[i].entry]
  <2>1. ASSUME NEW i \in 1 .. n, lowReqs[i].code # "FETCH", First(lowReqs, i)
        PROVE  w1[i] = data'[lowReqs'[i].entry]
    <3>1. w[i] = data[lowReqs[i].entry] /\ lowReqs[i].entry \in Entry
      BY <2>1, <1>1, <1>6 DEF FlowOK
    <3>2. Alone(lowReqs, e) => lowReqs[i].entry # e
      BY <1>1 DEF Alone
    <3>3. data'[lowReqs[i].entry] = data[lowReqs[i].entry]
      BY <3>1, <3>2
    <3> QED
      BY <1>1, <3>1, <3>3, <1>4
  <2>2. ASSUME q.code # "FETCH", Alone(lowReqs, e)
        PROVE  x = data'[e]
    <3>1. fin[e] = data[e]
      BY <2>2 DEF FlowOK
    <3> QED
      BY <2>2, <3>1
  <2>3. SUFFICES ASSUME NEW i \in 1 .. n + 1, lowReqs'[i].code # "FETCH", First(lowReqs', i)
                 PROVE  w1[i] = data'[lowReqs'[i].entry]
    OBVIOUS
  <2>4. CASE i = n + 1
    BY <2>2, <2>3, <2>4, <1>2, <1>4
  <2>5. CASE i \in 1 .. n
    <3>1. lowReqs[i].code # "FETCH" /\ First(lowReqs, i)
      BY <1>1, <1>2, <2>3, <2>5
    <3> QED
      BY <2>1, <2>5, <3>1
  <2> QED
    BY <2>4, <2>5, <1>3
<1>13. \A i, j \in 1 .. n + 1 :
         lowReqs'[j].code # "FETCH" /\ Adjacent(i, j)' => w1[j] = Received(lowReqs'[j], w1[i])
  <2>1. ASSUME NEW i \in 1 .. n, NEW j \in 1 .. n, lowReqs[j].code # "FETCH", Adjacent(i, j)
        PROVE  w1[j] = Received(lowReqs'[j], w1[i])
    <3>1. w[j] = Received(lowReqs[j], w[i])
      BY <2>1, <1>1 DEF FlowOK
    <3> QED
      BY <3>1, <1>1, <1>4
  <2>2. ASSUME NEW i \in 1 .. n, q.code # "FETCH", LastOf(i), lowReqs[i].entry = e
        PROVE  x = Received(q, w1[i])
    <3>1. fin[e] = w[i]
      BY <2>2, <1>1 DEF FlowOK
    <3> QED
      BY <2>2, <3>1, <1>4
  <2>3. SUFFICES ASSUME NEW i \in 1 .. n + 1, NEW j \in 1 .. n + 1, lowReqs'[j].code # "FETCH", Adjacent(i, j)'
                 PROVE  w1[j] = Received(lowReqs'[j], w1[i])
    OBVIOUS
  <2>4. i \in 1 .. n
    <3>1. SUFFICES ASSUME i = n + 1 PROVE FALSE
      BY <1>3
    <3> QED
      BY <1>2, <1>3, <2>3, <3>1
  <2>5. CASE j \in 1 .. n
    <3>1. lowReqs[j].code # "FETCH" /\ Adjacent(i, j)
      BY <1>1, <1>2, <2>3, <2>4, <2>5
    <3> QED
      BY <2>1, <2>4, <2>5, <3>1
  <2>6. CASE j = n + 1
    BY <1>2, <1>4, <2>2, <2>3, <2>4, <2>6
  <2> QED
    BY <1>3, <2>5, <2>6
<1>14. \A i \in 1 .. n + 1 : LastOf(i)' => fin1[lowReqs'[i].entry] = w1[i]
  <2>1. ASSUME NEW i \in 1 .. n, LastOf(i), lowReqs[i].entry # e
        PROVE  fin1[lowReqs[i].entry] = w1[i]
    <3>1. fin[lowReqs[i].entry] = w[i] /\ lowReqs[i].entry \in Entry
      BY <2>1, <1>1, <1>6 DEF FlowOK
    <3> QED
      BY <2>1, <3>1, <1>4, <1>5
  <2>2. SUFFICES ASSUME NEW i \in 1 .. n + 1, LastOf(i)'
                 PROVE  fin1[lowReqs'[i].entry] = w1[i]
    OBVIOUS
  <2>3. CASE i = n + 1
    BY <2>3, <1>4, <1>5
  <2>4. CASE i \in 1 .. n
    <3>1. lowReqs'[i] = lowReqs[i]
      BY <2>4, <1>1
    <3>2. LastOf(i) /\ lowReqs[i].entry # e
      BY <2>2, <2>4, <1>2
    <3> QED
      BY <2>1, <2>4, <3>1, <3>2
  <2> QED
    BY <2>3, <2>4, <1>3
<1>15. \A f \in Entry : Alone(lowReqs', f) => fin1[f] = data'[f]
  <2>1. SUFFICES ASSUME NEW f \in Entry, Alone(lowReqs, f), e # f PROVE fin1[f] = data'[f]
    BY <1>2
  <2>2. fin[f] = data[f]
    BY <2>1 DEF FlowOK
  <2>3. data'[f] = data[f]
    BY <2>1
  <2> QED
    BY <2>1, <2>2, <2>3, <1>5
<1>16. \A i \in 1 .. n + 1 : lowReqs'[i].code = "PROGRAM" => prg1[lowReqs'[i].page] = w1[i]
  <2>1. ASSUME NEW i \in 1 .. n, lowReqs[i].code = "PROGRAM"
        PROVE  prg1[lowReqs'[i].page] = w1[i]
    <3>1. prg[lowReqs[i].page] = w[i] /\ lowReqs[i].page \in Pages
      BY <2>1, <1>1, <1>6 DEF FlowOK
    <3>2. ~ (q.code = "PROGRAM" /\ lowReqs[i].page = q.page)
      OBVIOUS
    <3> QED
      BY <3>1, <3>2, <1>1, <1>4, <1>7
  <2>2. SUFFICES ASSUME NEW i \in 1 .. n + 1, lowReqs'[i].code = "PROGRAM"
                 PROVE  prg1[lowReqs'[i].page] = w1[i]
    OBVIOUS
  <2>3. CASE i = n + 1
    BY <2>2, <2>3, <1>4
  <2>4. CASE i \in 1 .. n
    <3>1. lowReqs[i].code = "PROGRAM"
      BY <1>1, <2>2, <2>4
    <3> QED
      BY <2>1, <2>4, <3>1
  <2> QED
    BY <2>3, <2>4, <1>3
<1>17. \A p \in Pages : Programmed(lowReqs', p) => prg1[p] = nand'[p]
  <2>1. SUFFICES ASSUME NEW p \in Pages, Programmed(lowReqs', p) PROVE prg1[p] = nand[p]
    OBVIOUS
  <2>2. Programmed(lowReqs, p) /\ ~ (q.code = "PROGRAM" /\ p = q.page)
    <3>1. \A i \in 1 .. n + 1 : ~ (lowReqs'[i].code = "PROGRAM" /\ lowReqs'[i].page = p)
      BY <2>1, <1>1 DEF Programmed
    <3> QED
      BY <3>1, <1>1, <1>3 DEF Programmed
  <2>3. prg[p] = nand[p]
    BY <2>2 DEF FlowOK
  <2> QED
    BY <2>2, <2>3, <1>7
<1>18. \A i \in 1 .. n + 1 : ReadOK(lowReqs'[i], w1[i])
  <2>1. \A i \in 1 .. n : ReadOK(lowReqs[i], w[i])
    BY <1>1 DEF FlowOK
  <2> QED
    BY <2>1, <1>1, <1>3, <1>4
<1>19. PICK m : m = n + 1
  OBVIOUS
<1>20. m = Len(lowReqs')
  BY <1>1, <1>19
<1>21. /\ \A j \in 1 .. m : lowReqs'[j].code = "FETCH" => w1[j] = prg1[lowReqs'[j].page]
       /\ \A j \in 1 .. m : lowReqs'[j].code # "FETCH" /\ First(lowReqs', j) => w1[j] = data'[lowReqs'[j].entry]
       /\ \A j, k \in 1 .. m :
            lowReqs'[k].code # "FETCH" /\ Adjacent(j, k)' => w1[k] = Received(lowReqs'[k], w1[j])
       /\ \A j \in 1 .. m : LastOf(j)' => fin1[lowReqs'[j].entry] = w1[j]
       /\ \A j \in 1 .. m : lowReqs'[j].code = "PROGRAM" => prg1[lowReqs'[j].page] = w1[j]
       /\ \A j \in 1 .. m : ReadOK(lowReqs'[j], w1[j])
  BY <1>11, <1>12, <1>13, <1>14, <1>16, <1>18, <1>19, Zenon
<1> QED
  BY <1>15, <1>17, <1>20, <1>21, Zenon DEF FlowOK

\* Two requests that differ in what they have sent do the same.
LEMMA SameReceived ==
  ASSUME NEW q, NEW r, SameButGot(q, r)
  PROVE  \A d : Received(q, d) = Received(r, d) /\ Got(q, d) = Got(r, d)
<1>1. q.moves = r.moves /\ q.code = r.code /\ q.val = r.val
  BY DEF SameButGot
<1> QED
  BY <1>1, Zenon DEF Received, Got

\* A request ends.
LEMMA FlowEnd ==
  ASSUME TypeInv, NEW i \in 1 .. Len(lowReqs), EndRequest(i),
         NEW w, NEW prg, NEW fin, FlowOK(w, prg, fin),
         NEW w1, NEW prg1,
         w1 = [j \in 1 .. Len(lowReqs) - 1 |-> w[After(j, i)]],
         prg1 = [p \in Pages |-> IF (\E l \in LSAs : map[l] = p)
                                      \/ (\E j \in 1 .. Len(lowReqs) - 1 : lowReqs'[j].page = p)
                                 THEN prg[p] ELSE Nothing]
  PROVE  FlowOK(w1, prg1, fin)'
<1> DEFINE n == Len(lowReqs)
           r == lowReqs[i]
           d == EntryAfter(r)
           o(j) == After(j, i)
           Kept(p) == (\E l \in LSAs : map[l] = p) \/ (\E j \in 1 .. n - 1 : lowReqs'[j].page = p)
<1>4. /\ First(lowReqs, i) /\ (r.code = "FETCH" => Programmed(lowReqs, r.page))
      /\ n \in Nat \ {0} /\ Len(lowReqs') = n - 1 /\ r.entry \in Entry /\ i \in 1 .. n
      /\ \A j \in 1 .. n - 1 :
           /\ o(j) \in 1 .. n /\ o(j) # i
           /\ SameButGot(lowReqs'[j], lowReqs[o(j)])
           /\ lowReqs'[j].got = IF Adjacent(i, o(j)) /\ lowReqs[o(j)].code = "TxDMA"
                                THEN Got(lowReqs[o(j)], d) ELSE lowReqs[o(j)].got
      /\ \A e \in Entry : e # r.entry => data'[e] = data[e]
      /\ \A j \in 1 .. n : Adjacent(i, j) => data'[r.entry] = Received(lowReqs[j], d)
      /\ LastOf(i) => data'[r.entry] = d
      /\ IsSeq(lowReqs')
  BY EndIs
<1>5. \A p \in Pages : nand'[p] = IF Kept(p)
                                  THEN IF r.code = "PROGRAM" /\ p = r.page THEN data[r.entry] ELSE nand[p]
                                  ELSE Nothing
  BY EndIs
<1>6. \A p \in Pages : prg1[p] = IF Kept(p) THEN prg[p] ELSE Nothing
  OBVIOUS
<1>7. \A j \in 1 .. n - 1 : w1[j] = w[o(j)]
  OBVIOUS
<1>1. n = Len(lowReqs)
  OBVIOUS
<1>2. r = lowReqs[i]
  OBVIOUS
<1>3. d = EntryAfter(r)
  OBVIOUS
<1> HIDE DEF Kept, o, n, r, d
<1>8. /\ \A m \in 1 .. n : m # i => \E j \in 1 .. n - 1 : o(j) = m
      /\ DOMAIN lowReqs = 1 .. n /\ DOMAIN lowReqs' = 1 .. n - 1
  <2>1. n \in Nat /\ i \in 1 .. n
    BY <1>4
  <2>2. /\ \A j \in 1 .. n - 1 : After(j, i) \in 1 .. n /\ After(j, i) # i
        /\ \A j, k \in 1 .. n - 1 : /\ After(j, i) < After(k, i) <=> j < k
                                    /\ After(j, i) = After(k, i) => j = k
        /\ \A m \in 1 .. n : m # i => \E j \in 1 .. n - 1 : After(j, i) = m
    BY <2>1, AfterIs, Zenon
  <2> QED
    BY <1>1, <1>4, <2>2, Types, SeqSizes DEF o
<1>9. /\ \A j \in 1 .. n - 1 :
           /\ First(lowReqs', j) <=> First(lowReqs, o(j)) \/ Adjacent(i, o(j))
           /\ LastOf(j)' <=> LastOf(o(j))
      /\ \A j, k \in 1 .. n - 1 : Adjacent(j, k)' <=> Adjacent(o(j), o(k))
  BY <1>1, EndRemoves, RemovedOrder DEF o
<1>10. \A j \in 1 .. n - 1 : /\ lowReqs'[j].code = lowReqs[o(j)].code /\ lowReqs'[j].entry = lowReqs[o(j)].entry
                             /\ lowReqs'[j].page = lowReqs[o(j)].page /\ lowReqs'[j].expect = lowReqs[o(j)].expect
                             /\ lowReqs'[j].moves = lowReqs[o(j)].moves
                             /\ \A y : /\ Received(lowReqs'[j], y) = Received(lowReqs[o(j)], y)
                                       /\ Got(lowReqs'[j], y) = Got(lowReqs[o(j)], y)
  <2>1. SUFFICES ASSUME NEW j \in 1 .. n - 1, NEW y
                 PROVE  /\ lowReqs'[j].code = lowReqs[o(j)].code /\ lowReqs'[j].entry = lowReqs[o(j)].entry
                        /\ lowReqs'[j].page = lowReqs[o(j)].page /\ lowReqs'[j].expect = lowReqs[o(j)].expect
                        /\ lowReqs'[j].moves = lowReqs[o(j)].moves
                        /\ Received(lowReqs'[j], y) = Received(lowReqs[o(j)], y)
                        /\ Got(lowReqs'[j], y) = Got(lowReqs[o(j)], y)
    OBVIOUS
  <2>2. SameButGot(lowReqs'[j], lowReqs[o(j)])
    BY <1>4
  <2>3. /\ Received(lowReqs'[j], y) = Received(lowReqs[o(j)], y)
        /\ Got(lowReqs'[j], y) = Got(lowReqs[o(j)], y)
    BY <2>2, SameReceived
  <2> QED
    BY <2>2, <2>3 DEF SameButGot
\* What the flash and the entry hold is what the requests made them.
<1>11. /\ \A m \in 1 .. n : lowReqs[m].code = "FETCH" => w[m] = prg[lowReqs[m].page]
       /\ \A m \in 1 .. n : lowReqs[m].code # "FETCH" /\ First(lowReqs, m) => w[m] = data[lowReqs[m].entry]
       /\ \A m, k \in 1 .. n : lowReqs[k].code # "FETCH" /\ Adjacent(m, k) => w[k] = Received(lowReqs[k], w[m])
       /\ \A m \in 1 .. n : LastOf(m) => fin[lowReqs[m].entry] = w[m]
       /\ \A e \in Entry : Alone(lowReqs, e) => fin[e] = data[e]
       /\ \A m \in 1 .. n : lowReqs[m].code = "PROGRAM" => prg[lowReqs[m].page] = w[m]
       /\ \A p \in Pages : Programmed(lowReqs, p) => prg[p] = nand[p]
       /\ \A m \in 1 .. n : ReadOK(lowReqs[m], w[m])
  BY <1>1 DEF FlowOK
<1>12. r.code \in {"FETCH", "PROGRAM"} => r.page \in Pages
  <2>1. LowReq(r)
    BY <1>2, Types DEF LowReqsOK
  <2> QED
    BY <2>1, ReceivedVal DEF IsDma
<1>13. d = w[i]
  <2>1. CASE r.code = "FETCH"
    <3>1. d = nand[r.page]
      BY <2>1, <1>3 DEF EntryAfter
    <3>2. prg[r.page] = nand[r.page]
      BY <2>1, <1>4, <1>11, <1>12
    <3> QED
      BY <2>1, <3>1, <3>2, <1>2, <1>4, <1>11
  <2>2. CASE r.code # "FETCH"
    <3>1. d = data[r.entry]
      BY <2>2, <1>3 DEF EntryAfter
    <3> QED
      BY <2>2, <3>1, <1>2, <1>4, <1>11
  <2> QED
    BY <2>1, <2>2
<1>14. \A m \in 1 .. n : First(lowReqs, m) /\ m # i => lowReqs[m].entry # r.entry
  <2>1. SUFFICES ASSUME NEW m \in 1 .. n, First(lowReqs, m), m # i PROVE lowReqs[m].entry # r.entry
    OBVIOUS
  <2>2. m \in 1 .. i - 1 \/ i \in 1 .. m - 1
    BY <1>4, <2>1
  <2> QED
    BY <1>2, <1>4, <2>1, <2>2 DEF First
<1>15. \A m \in 1 .. n : Adjacent(i, m) => lowReqs[m].entry = r.entry
  BY <1>2 DEF Adjacent
<1>16. \A m \in 1 .. n : lowReqs[m].entry \in Entry
  <2>1. SUFFICES ASSUME NEW m \in 1 .. n PROVE lowReqs[m].entry \in Entry
    OBVIOUS
  <2>2. LowReq(lowReqs[m])
    BY <1>1, Types DEF LowReqsOK
  <2> QED
    BY <2>2 DEF LowReq
<1>17. \A j \in 1 .. n - 1 : lowReqs'[j].page \in Pages => prg1[lowReqs'[j].page] = prg[lowReqs[o(j)].page]
  <2>1. SUFFICES ASSUME NEW j \in 1 .. n - 1, lowReqs'[j].page \in Pages
                 PROVE  prg1[lowReqs'[j].page] = prg[lowReqs'[j].page]
    BY <1>10
  <2>2. Kept(lowReqs'[j].page)
    BY DEF Kept
  <2> QED
    BY <1>6, <2>1, <2>2
<1>18. \A j \in 1 .. n - 1 : lowReqs'[j].code \in {"FETCH", "PROGRAM"} => lowReqs'[j].page \in Pages
  <2>1. SUFFICES ASSUME NEW j \in 1 .. n - 1, lowReqs[o(j)].code \in {"FETCH", "PROGRAM"}
                 PROVE  lowReqs[o(j)].page \in Pages
    BY <1>10
  <2>2. LowReq(lowReqs[o(j)])
    BY <1>1, <1>4, Types DEF LowReqsOK
  <2> QED
    BY <2>1, <2>2, ReceivedVal DEF IsDma
<1>19. \A j \in 1 .. n - 1 : o(j) \in 1 .. n /\ o(j) # i
  BY <1>4
<1>21. \A j \in 1 .. n - 1 : lowReqs'[j].code = "FETCH" => w1[j] = prg1[lowReqs'[j].page]
  <2>1. SUFFICES ASSUME NEW j \in 1 .. n - 1, lowReqs'[j].code = "FETCH" PROVE w1[j] = prg1[lowReqs'[j].page]
    OBVIOUS
  <2>2. PICK m \in 1 .. n : m = o(j)
    BY <1>19
  <2>3. lowReqs[m].code = "FETCH" /\ w1[j] = w[m]
    BY <1>7, <1>10, <2>1, <2>2
  <2>4. w[m] = prg[lowReqs[m].page]
    BY <1>11, <2>3
  <2>5. prg1[lowReqs'[j].page] = prg[lowReqs[m].page]
    BY <1>17, <1>18, <2>1, <2>2
  <2> QED
    BY <2>3, <2>4, <2>5
<1>22. \A j \in 1 .. n - 1 : lowReqs'[j].code # "FETCH" /\ First(lowReqs', j) => w1[j] = data'[lowReqs'[j].entry]
  <2>1. SUFFICES ASSUME NEW j \in 1 .. n - 1, lowReqs'[j].code # "FETCH", First(lowReqs', j)
                 PROVE  w[o(j)] = data'[lowReqs[o(j)].entry]
    BY <1>7, <1>10
  <2>2. PICK m \in 1 .. n : m = o(j) /\ m # i
    BY <1>19
  <2>3. lowReqs[m].code # "FETCH" /\ (First(lowReqs, m) \/ Adjacent(i, m))
    BY <1>9, <1>10, <2>1, <2>2
  <2>4. CASE First(lowReqs, m)
    <3>1. lowReqs[m].entry # r.entry /\ w[m] = data[lowReqs[m].entry]
      BY <1>11, <1>14, <2>2, <2>3, <2>4
    <3> QED
      BY <1>4, <1>16, <2>2, <3>1
  <2>5. CASE Adjacent(i, m)
    <3>1. lowReqs[m].entry = r.entry /\ w[m] = Received(lowReqs[m], w[i])
      BY <1>4, <1>11, <1>15, <2>3, <2>5
    <3> QED
      BY <1>4, <1>13, <2>2, <2>5, <3>1
  <2> QED
    BY <2>3, <2>4, <2>5
<1>23. \A j, k \in 1 .. n - 1 :
         lowReqs'[k].code # "FETCH" /\ Adjacent(j, k)' => w1[k] = Received(lowReqs'[k], w1[j])
  <2>1. SUFFICES ASSUME NEW j \in 1 .. n - 1, NEW k \in 1 .. n - 1, lowReqs'[k].code # "FETCH", Adjacent(j, k)'
                 PROVE  w1[k] = Received(lowReqs'[k], w1[j])
    OBVIOUS
  <2>2. PICK m \in 1 .. n : m = o(j)
    BY <1>19
  <2>3. PICK l \in 1 .. n : l = o(k)
    BY <1>19
  <2>4. lowReqs[l].code # "FETCH" /\ Adjacent(m, l)
    BY <1>9, <1>10, <2>1, <2>2, <2>3
  <2>5. w[l] = Received(lowReqs[l], w[m])
    BY <1>11, <2>4
  <2> QED
    BY <1>7, <1>10, <2>2, <2>3, <2>5
<1>24. \A j \in 1 .. n - 1 : LastOf(j)' => fin[lowReqs'[j].entry] = w1[j]
  <2>1. SUFFICES ASSUME NEW j \in 1 .. n - 1, LastOf(j)' PROVE fin[lowReqs'[j].entry] = w1[j]
    OBVIOUS
  <2>2. PICK m \in 1 .. n : m = o(j)
    BY <1>19
  <2>3. LastOf(m)
    BY <1>9, <2>1, <2>2
  <2>4. fin[lowReqs[m].entry] = w[m]
    BY <1>11, <2>3
  <2>5. lowReqs'[j].entry = lowReqs[m].entry /\ w1[j] = w[m]
    BY <1>7, <1>10, <2>2
  <2> QED
    BY <2>4, <2>5
<1>25. \A e \in Entry : Alone(lowReqs', e) => fin[e] = data'[e]
  <2>1. SUFFICES ASSUME NEW e \in Entry, Alone(lowReqs', e) PROVE fin[e] = data'[e]
    OBVIOUS
  <2>2. \A m \in 1 .. n : m # i => lowReqs[m].entry # e
    <3>1. SUFFICES ASSUME NEW m \in 1 .. n, m # i PROVE lowReqs[m].entry # e
      OBVIOUS
    <3>2. PICK j \in 1 .. n - 1 : o(j) = m
      BY <1>8, <3>1
    <3>3. lowReqs'[j].entry # e
      BY <1>8, <2>1 DEF Alone
    <3> QED
      BY <1>10, <3>2, <3>3
  <2>3. CASE e = r.entry
    <3>1. LastOf(i)
      <4>1. \A m \in i + 1 .. n : m \in 1 .. n /\ m # i
        BY <1>4
      <4> QED
        BY <1>1, <1>2, <2>2, <2>3, <4>1 DEF LastOf
    <3> QED
      BY <1>2, <1>4, <1>11, <1>13, <2>3, <3>1
  <2>4. CASE e # r.entry
    <3>1. Alone(lowReqs, e)
      BY <1>2, <1>8, <2>2, <2>4 DEF Alone
    <3> QED
      BY <1>4, <1>11, <2>4, <3>1
  <2> QED
    BY <2>3, <2>4
<1>26. \A j \in 1 .. n - 1 : lowReqs'[j].code = "PROGRAM" => prg1[lowReqs'[j].page] = w1[j]
  <2>1. SUFFICES ASSUME NEW j \in 1 .. n - 1, lowReqs'[j].code = "PROGRAM" PROVE prg1[lowReqs'[j].page] = w1[j]
    OBVIOUS
  <2>2. PICK m \in 1 .. n : m = o(j)
    BY <1>19
  <2>3. lowReqs[m].code = "PROGRAM" /\ w1[j] = w[m]
    BY <1>7, <1>10, <2>1, <2>2
  <2>4. w[m] = prg[lowReqs[m].page]
    BY <1>11, <2>3
  <2>5. prg1[lowReqs'[j].page] = prg[lowReqs[m].page]
    BY <1>17, <1>18, <2>1, <2>2
  <2> QED
    BY <2>3, <2>4, <2>5
<1>27. \A p \in Pages : Programmed(lowReqs', p) => prg1[p] = nand'[p]
  <2>1. SUFFICES ASSUME NEW p \in Pages, Programmed(lowReqs', p) PROVE prg1[p] = nand'[p]
    OBVIOUS
  <2>2. CASE ~ Kept(p)
    BY <1>5, <1>6, <2>2
  <2>3. CASE Kept(p)
    <3>1. CASE r.code = "PROGRAM" /\ p = r.page
      <4>1. prg[p] = w[i] /\ w[i] = data[r.entry]
        BY <1>2, <1>4, <1>11, <3>1
      <4> QED
        BY <1>5, <1>6, <2>3, <3>1, <4>1
    <3>2. CASE ~ (r.code = "PROGRAM" /\ p = r.page)
      <4>1. Programmed(lowReqs, p)
        <5>1. SUFFICES ASSUME NEW m \in 1 .. n, lowReqs[m].code = "PROGRAM", lowReqs[m].page = p PROVE FALSE
          BY <1>8 DEF Programmed
        <5>2. m # i
          BY <1>2, <3>2, <5>1
        <5>3. PICK j \in 1 .. n - 1 : o(j) = m
          BY <1>8, <5>2
        <5>4. lowReqs'[j].code = "PROGRAM" /\ lowReqs'[j].page = p
          BY <1>10, <5>1, <5>3
        <5> QED
          BY <1>8, <2>1, <5>4 DEF Programmed
      <4> QED
        BY <1>5, <1>6, <1>11, <2>3, <3>2, <4>1
    <3> QED
      BY <3>1, <3>2
  <2> QED
    BY <2>2, <2>3
<1>28. \A j \in 1 .. n - 1 : ReadOK(lowReqs'[j], w1[j])
  <2>1. SUFFICES ASSUME NEW j \in 1 .. n - 1, lowReqs'[j].code = "TxDMA"
                 PROVE  /\ lowReqs'[j].got = <<>> \/ lowReqs'[j].got = Got(lowReqs'[j], w1[j])
                        /\ \A m \in DOMAIN lowReqs'[j].moves : \A u \in Moved(lowReqs'[j].moves[m]) :
                             Agrees(w1[j][u],
                                    lowReqs'[j].expect[(u - lowReqs'[j].moves[1].at) \div LBA_SIZE + 1])
    BY Zenon DEF ReadOK
  <2>2. PICK m \in 1 .. n : m = o(j) /\ m # i
    BY <1>19
  <2>3. ReadOK(lowReqs[m], w[m]) /\ lowReqs[m].code = "TxDMA"
    BY <1>10, <1>11, <2>1, <2>2
  <2>4. w1[j] = w[m] /\ Got(lowReqs'[j], w1[j]) = Got(lowReqs[m], w[m])
    BY <1>7, <1>10, <2>2
  <2>5. lowReqs'[j].got = <<>> \/ lowReqs'[j].got = Got(lowReqs'[j], w1[j])
    <3>1. CASE Adjacent(i, m)
      <4>1. lowReqs'[j].got = Got(lowReqs[m], d)
        BY <1>4, <2>2, <2>3, <3>1
      <4>2. w[m] = Received(lowReqs[m], w[i])
        BY <1>4, <1>11, <2>3, <3>1
      <4>3. Received(lowReqs[m], w[i]) = w[i]
        BY <2>3 DEF Received
      <4> QED
        BY <1>13, <2>4, <4>1, <4>2, <4>3
    <3>2. CASE ~ Adjacent(i, m)
      <4>1. lowReqs'[j].got = lowReqs[m].got
        BY <1>4, <2>2, <3>2
      <4> QED
        BY <2>3, <2>4, <4>1 DEF ReadOK
    <3> QED
      BY <3>1, <3>2
  <2>6. lowReqs'[j].moves = lowReqs[m].moves /\ lowReqs'[j].expect = lowReqs[m].expect
    BY <1>10, <2>2
  <2>7. \A x \in DOMAIN lowReqs[m].moves : \A u \in Moved(lowReqs[m].moves[x]) :
          Agrees(w[m][u], lowReqs[m].expect[(u - lowReqs[m].moves[1].at) \div LBA_SIZE + 1])
    BY <2>3, Zenon DEF ReadOK
  <2> QED
    BY <2>4, <2>5, <2>6, <2>7, Zenon
<1>29. PICK m : m = n - 1
  OBVIOUS
<1>30. m = Len(lowReqs')
  BY <1>4, <1>29
<1>31. /\ \A j \in 1 .. m : lowReqs'[j].code = "FETCH" => w1[j] = prg1[lowReqs'[j].page]
       /\ \A j \in 1 .. m : lowReqs'[j].code # "FETCH" /\ First(lowReqs', j) => w1[j] = data'[lowReqs'[j].entry]
       /\ \A j, k \in 1 .. m :
            lowReqs'[k].code # "FETCH" /\ Adjacent(j, k)' => w1[k] = Received(lowReqs'[k], w1[j])
       /\ \A j \in 1 .. m : LastOf(j)' => fin[lowReqs'[j].entry] = w1[j]
       /\ \A j \in 1 .. m : lowReqs'[j].code = "PROGRAM" => prg1[lowReqs'[j].page] = w1[j]
       /\ \A j \in 1 .. m : ReadOK(lowReqs'[j], w1[j])
  BY <1>21, <1>22, <1>23, <1>24, <1>26, <1>28, <1>29, Zenon
<1> QED
  BY <1>25, <1>27, <1>30, <1>31, Zenon DEF FlowOK

FlowInv ==
  \E w : \E prg \in [Pages -> Content], fin \in [Entry -> Content] : FlowOK(w, prg, fin) /\ StoreOK(prg, fin)

\* Steps that make no request, and leave the entries and the flash alone.
LEMMA FlowStays ==
  ASSUME UNCHANGED <<lowReqs, data, nand>>, NEW w, NEW prg, NEW fin, FlowOK(w, prg, fin)
  PROVE  FlowOK(w, prg, fin)'
<1>1. \A i, j : (Adjacent(i, j)' <=> Adjacent(i, j)) /\ (LastOf(i)' <=> LastOf(i))
  BY DEF Adjacent, LastOf
<1>2. PICK n : n = Len(lowReqs)
  OBVIOUS
<1>3. /\ \A j \in 1 .. n : lowReqs[j].code = "FETCH" => w[j] = prg[lowReqs[j].page]
      /\ \A j \in 1 .. n : lowReqs[j].code # "FETCH" /\ First(lowReqs, j) => w[j] = data[lowReqs[j].entry]
      /\ \A j, k \in 1 .. n :
           lowReqs[k].code # "FETCH" /\ Adjacent(j, k) => w[k] = Received(lowReqs[k], w[j])
      /\ \A j \in 1 .. n : LastOf(j) => fin[lowReqs[j].entry] = w[j]
      /\ \A e \in Entry : Alone(lowReqs, e) => fin[e] = data[e]
      /\ \A j \in 1 .. n : lowReqs[j].code = "PROGRAM" => prg[lowReqs[j].page] = w[j]
      /\ \A p \in Pages : Programmed(lowReqs, p) => prg[p] = nand[p]
      /\ \A j \in 1 .. n : ReadOK(lowReqs[j], w[j])
  BY <1>2, Zenon DEF FlowOK
<1>4. lowReqs' = lowReqs /\ data' = data /\ nand' = nand
  OBVIOUS
<1>5. /\ \A j \in 1 .. n : lowReqs'[j].code = "FETCH" => w[j] = prg[lowReqs'[j].page]
      /\ \A j \in 1 .. n : lowReqs'[j].code # "FETCH" /\ First(lowReqs', j) => w[j] = data'[lowReqs'[j].entry]
      /\ \A j, k \in 1 .. n :
           lowReqs'[k].code # "FETCH" /\ Adjacent(j, k)' => w[k] = Received(lowReqs'[k], w[j])
      /\ \A j \in 1 .. n : LastOf(j)' => fin[lowReqs'[j].entry] = w[j]
      /\ \A e \in Entry : Alone(lowReqs', e) => fin[e] = data'[e]
      /\ \A j \in 1 .. n : lowReqs'[j].code = "PROGRAM" => prg[lowReqs'[j].page] = w[j]
      /\ \A p \in Pages : Programmed(lowReqs', p) => prg[p] = nand'[p]
      /\ \A j \in 1 .. n : ReadOK(lowReqs'[j], w[j])
  BY <1>1, <1>3, <1>4
<1>6. n = Len(lowReqs')
  BY <1>2
<1> QED
  BY <1>5, <1>6, Zenon DEF FlowOK

\* Every entry and every page says of its slice what it said.
CurKept == \A x : \A l \in LSAs : CurOK(x, l) => CurOK(x, l)'

LEMMA StoreStays ==
  ASSUME UNCHANGED <<lsaOf, dirty, map>>, CurKept, pc = "fetch" => pc' = "fetch" /\ entry' = entry,
         NEW prg, NEW fin, StoreOK(prg, fin),
         NEW prg1, \A l \in LSAs, p \in Pages : map[l] = p => prg1[p] = prg[p]
  PROVE  StoreOK(prg1, fin)'
<1>1. ASSUME NEW e \in Entry, NEW l \in LSAs, lsaOf'[e] = l, ~ (pc' = "fetch" /\ e = entry')
      PROVE  CurOK(fin[e], l)'
  BY <1>1 DEF StoreOK, CurKept
<1>2. \A l : DirtyOf(l)' <=> DirtyOf(l)
  BY DEF DirtyOf
<1>3. ASSUME NEW l \in LSAs, ~ DirtyOf(l)', map'[l] = NoPage
      PROVE  CurOK(Nothing, l)'
  BY <1>2, <1>3 DEF StoreOK, CurKept
<1>4. ASSUME NEW l \in LSAs, NEW p \in Pages, ~ DirtyOf(l)', map'[l] = p
      PROVE  CurOK(prg1[p], l)'
  BY <1>2, <1>4 DEF StoreOK, CurKept
<1> QED
  BY <1>1, <1>3, <1>4 DEF StoreOK

LEMMA CurStays ==
  ASSUME UNCHANGED disk, \A l \in LSAs : \A u \in Units : Pend(l, u) => Pend(l, u)'
  PROVE  CurKept
<1>1. SUFFICES ASSUME NEW x, NEW l \in LSAs, CurOK(x, l) PROVE CurOK(x, l)'
  BY DEF CurKept
<1> QED
  BY <1>1, CurIs

\* The writes that are on the way are those of the same slices.
LEMMA PendSame ==
  ASSUME UNCHANGED <<sliceReqQ, req>>
  PROVE  \A l, u : Pend(l, u)' <=> Pend(l, u)
BY DEF Pend

\* Nothing is on the way at the start.
LEMMA InitFlows == Init => FlowInv
<1>1. SUFFICES ASSUME Init PROVE FlowInv
  OBVIOUS
<1>2. /\ pc = "idle" /\ lowReqs = <<>> /\ map = [l \in LSAs |-> NoPage] /\ data = [e \in Entry |-> Nothing]
      /\ nand = [p \in Pages |-> Nothing] /\ disk = [b \in LBAs |-> NONE] /\ lsaOf = [e \in Entry |-> LSA_NONE]
  BY <1>1 DEF Init, InitDataBuf
<1>3. LSAs \subseteq Nat /\ NoPage \notin Pages /\ LSA_NONE \notin Nat
  BY CommandsAssumption, PagesAssumption DEF LSA_NONE
<1>4. Nothing \in Content
  BY DEF Nothing, Content
<1>5. FlowOK(<<>>, nand, data)
  <2>1. Len(lowReqs) = 0 /\ 1 .. 0 = {}
    BY <1>2
  <2> QED
    BY <2>1 DEF FlowOK
<1>6. ASSUME NEW l \in LSAs
      PROVE  CurOK(Nothing, l)
  <2>1. SUFFICES ASSUME NEW u \in Units PROVE Slice(l)[u] = NONE
    BY DEF CurOK, Agrees
  <2>2. PICK b \in LBAs : b = l * NVME_BLOCKS_PER_SLICE + u \div LBA_SIZE
    BY BlockOfUnit
  <2>3. disk[b] = NONE
    BY <1>2
  <2> QED
    BY <2>2, <2>3, SliceUnit
<1>7. StoreOK(nand, data)
  BY <1>2, <1>3, <1>6 DEF StoreOK
<1>8. nand \in [Pages -> Content] /\ data \in [Entry -> Content]
  BY <1>2, <1>4
<1> QED
  BY <1>5, <1>7, <1>8, Zenon DEF FlowInv

\* A step that keeps all of it.
LEMMA FlowInvStays ==
  ASSUME FlowInv, UNCHANGED <<lowReqs, data, nand, lsaOf, dirty, map>>, CurKept,
         pc = "fetch" => pc' = "fetch" /\ entry' = entry
  PROVE  FlowInv'
<1>0. PICK w : \E prg \in [Pages -> Content], fin \in [Entry -> Content] : FlowOK(w, prg, fin) /\ StoreOK(prg, fin)
  BY DEF FlowInv
<1>1. PICK prg \in [Pages -> Content], fin \in [Entry -> Content] : FlowOK(w, prg, fin) /\ StoreOK(prg, fin)
  BY <1>0
<1>2. FlowOK(w, prg, fin)'
  BY <1>1, FlowStays
<1>3. StoreOK(prg, fin)'
  BY <1>1, StoreStays
<1> QED
  BY <1>2, <1>3, Zenon DEF FlowInv

LEMMA StutterFlows ==
  ASSUME FlowInv, UNCHANGED vars
  PROVE  FlowInv'
<1>1. UNCHANGED <<lowReqs, data, nand, lsaOf, dirty, map, sliceReqQ, req, disk, pc, entry>>
  BY DEF vars, deviceVars, dataBufVars
<1> QED
  BY <1>1, PendSame, CurStays, FlowInvStays

LEMMA SliceReqQEmptyFlows ==
  ASSUME FlowInv, SliceReqQEmpty
  PROVE  FlowInv'
<1>1. UNCHANGED <<lowReqs, data, nand, lsaOf, dirty, map, sliceReqQ, req, disk>> /\ pc # "fetch"
  BY DEF SliceReqQEmpty, deviceVars, dataBufVars
<1> QED
  BY <1>1, PendSame, CurStays, FlowInvStays

LEMMA HitFlows ==
  ASSUME FlowInv, NEW e \in Entry, Hit(e)
  PROVE  FlowInv'
<1>1. UNCHANGED <<lowReqs, data, nand, lsaOf, dirty, map, sliceReqQ, req, disk>> /\ pc # "fetch"
  BY DEF Hit, CheckDataBufHit
<1> QED
  BY <1>1, PendSame, CurStays, FlowInvStays

\* The write in hand was in the queue before.
LEMMA GetFromSliceReqQFlows ==
  ASSUME TypeInv, FlowInv, GetFromSliceReqQ
  PROVE  FlowInv'
<1>1. /\ UNCHANGED <<lowReqs, data, nand, lsaOf, dirty, map, disk>> /\ pc = "slices"
      /\ sliceReqQ # <<>> /\ req' = Head(sliceReqQ) /\ sliceReqQ' = Tail(sliceReqQ)
  BY DEF GetFromSliceReqQ, dataBufVars
<1>2. IsSeq(sliceReqQ) /\ (req # NoReq <=> Busy) /\ \A j \in 1 .. Len(sliceReqQ) : IsReq(sliceReqQ[j])
  BY Types DEF QueueOK, LowReqsOK
<1>3. req = NoReq
  BY <1>1, <1>2 DEF Busy
<1> DEFINE n == Len(sliceReqQ)
<1>4. /\ n \in Nat \ {0} /\ Len(sliceReqQ') = n - 1
      /\ \A i \in 1 .. n - 1 : sliceReqQ'[i] = sliceReqQ[i + 1]
      /\ req' = sliceReqQ[1]
  BY <1>1, <1>2, TailIs
<1>5. n = Len(sliceReqQ)
  OBVIOUS
<1> HIDE DEF n
<1>6. req' # NoReq
  BY <1>2, <1>4, <1>5, ReqIsNotNoReq
<1>7. ASSUME NEW l \in LSAs, NEW u \in Units, Pend(l, u)
      PROVE  Pend(l, u)'
  <2>1. PICK j \in 1 .. n : sliceReqQ[j].code = "WRITE" /\ sliceReqQ[j].lsa = l /\ Touches(sliceReqQ[j], u)
    BY <1>3, <1>5, <1>7 DEF Pend
  <2>2. CASE j = 1
    BY <1>4, <1>6, <2>1, <2>2 DEF Pend
  <2>3. CASE j # 1
    <3>1. j - 1 \in 1 .. n - 1 /\ (j - 1) + 1 = j
      BY <1>4, <2>3
    <3>2. sliceReqQ'[j - 1] = sliceReqQ[j] /\ j - 1 \in 1 .. Len(sliceReqQ')
      BY <1>4, <3>1
    <3> QED
      BY <2>1, <3>2 DEF Pend
  <2> QED
    BY <2>2, <2>3
<1> QED
  BY <1>1, <1>7, CurStays, FlowInvStays

\* A write of the host is on the way from here on, in every unit it changes.
LEMMA TakeCommandFlows ==
  ASSUME TypeInv, FlowInv, NEW c \in Commands, TakeCommand(c)
  PROVE  FlowInv'
<1>1. /\ UNCHANGED <<lowReqs, data, nand, lsaOf, dirty, map, req>> /\ pc = "idle"
      /\ sliceReqQ' = [k \in 1 .. SliceCount(c) |-> SliceReq(c, k)]
      /\ disk' = [b \in LBAs |-> IF c.op = "WRITE" /\ b \in c.lba .. c.lba + c.nlb THEN c.val ELSE disk[b]]
  BY DEF TakeCommand, dataBufVars
<1>2. sliceReqQ = <<>> /\ req = NoReq
  BY <1>1, Types DEF QueueOK, Busy
<1>3. \A l, u : ~ Pend(l, u)
  BY <1>2 DEF Pend
<1>4. SliceCount(c) \in Nat /\ Len(sliceReqQ') = SliceCount(c)
  <2>1. SliceCount(c) \in Nat
    BY CommandsAre, SlicesAre
  <2> QED
    BY <1>1, <2>1
<1>5. CurKept
  <2>1. SUFFICES ASSUME NEW x, NEW l \in LSAs, CurOK(x, l), NEW u \in Units, ~ Pend(l, u)'
                 PROVE  Agrees(x[u], Slice(l)[u])'
    BY DEF CurKept, CurOK
  <2>2. PICK b \in LBAs : b = l * NVME_BLOCKS_PER_SLICE + u \div LBA_SIZE
    BY BlockOfUnit
  <2>3. Slice(l)[u] = disk[b] /\ Slice(l)'[u] = disk'[b]
    BY <2>2 DEF Slice
  <2>4. ~ (c.op = "WRITE" /\ b \in c.lba .. c.lba + c.nlb)
    <3>1. SUFFICES ASSUME c.op = "WRITE", b \in c.lba .. c.lba + c.nlb PROVE FALSE
      OBVIOUS
    <3>2. PICK k \in 1 .. SliceCount(c) : LogicalSliceAddr(c, k) = l /\ u \in Base(c, k) .. SliceEnd(c, k) - 1
      BY <2>2, <3>1, UnitInSlice
    <3>3. sliceReqQ'[k] = SliceReq(c, k)
      BY <1>1
    <3>4. PICK q : q = SliceReq(c, k)
      OBVIOUS
    <3>5. OfSlice(q, c, k) /\ q.code = "WRITE"
      BY <3>1, <3>4, SliceReqIs
    <3>6. Touches(q, u) /\ q.lsa = l
      BY <3>2, <3>5, TouchesIs DEF OfSlice
    <3>7. k \in 1 .. Len(sliceReqQ') /\ sliceReqQ'[k] = q
      BY <1>4, <3>3, <3>4
    <3> QED
      BY <2>1, <3>5, <3>6, <3>7 DEF Pend
  <2>5. disk'[b] = disk[b]
    BY <1>1, <2>4
  <2>6. Agrees(x[u], Slice(l)[u])
    BY <1>3, <2>1 DEF CurOK
  <2> QED
    BY <2>3, <2>5, <2>6 DEF Agrees
<1> QED
  BY <1>1, <1>5, FlowInvStays

\* Whatever request ends next, what the store will hold stays the same.
LEMMA EndRequestFlows ==
  ASSUME TypeInv, FlowInv, NEW i \in 1 .. Len(lowReqs), EndRequest(i)
  PROVE  FlowInv'
<1>0. PICK w : \E prg \in [Pages -> Content], fin \in [Entry -> Content] : FlowOK(w, prg, fin) /\ StoreOK(prg, fin)
  BY DEF FlowInv
<1>1. PICK prg \in [Pages -> Content], fin \in [Entry -> Content] : FlowOK(w, prg, fin) /\ StoreOK(prg, fin)
  BY <1>0
<1>2. PICK w1 : w1 = [j \in 1 .. Len(lowReqs) - 1 |-> w[After(j, i)]]
  OBVIOUS
<1>3. PICK prg1 : prg1 = [p \in Pages |-> IF (\E l \in LSAs : map[l] = p)
                                           \/ (\E j \in 1 .. Len(lowReqs) - 1 : lowReqs'[j].page = p)
                                        THEN prg[p] ELSE Nothing]
  OBVIOUS
<1>4. FlowOK(w1, prg1, fin)'
  BY <1>1, <1>2, <1>3, FlowEnd
<1>5. UNCHANGED <<pc, sliceReqQ, req, entry, map, disk, lsaOf, dirty>>
  BY DEF EndRequest, dataBufVars
<1>6. CurKept
  BY <1>5, PendSame, CurStays
<1>7. \A l \in LSAs, p \in Pages : map[l] = p => prg1[p] = prg[p]
  BY <1>3
<1>8. StoreOK(prg1, fin)'
  BY <1>1, <1>5, <1>6, <1>7, StoreStays
<1>9. Nothing \in Content
  BY DEF Nothing, Content
<1>10. prg1 \in [Pages -> Content]
  BY <1>3, <1>9
<1> QED
  BY <1>1, <1>4, <1>8, <1>10, Zenon DEF FlowInv

\* A request is handed to the lower layer: its entry will hold x.
SelectStep(r, s, x, w, prg, fin, prg1, fin1) ==
  /\ LowReq(r) /\ r.got = <<>> /\ Select(r, s) /\ nand' = nand
  /\ prg \in [Pages -> Content] /\ fin \in [Entry -> Content] /\ FlowOK(w, prg, fin)
  /\ x = IF r.code = "FETCH" THEN prg[r.page] ELSE Received(r, fin[r.entry])
  /\ r.code # "PROGRAM" => prg1 = prg
  /\ r.code = "PROGRAM" => /\ prg1[r.page] = x
                           /\ \A p \in Pages : p # r.page => prg1[p] = prg[p]
                           /\ \A i \in 1 .. Len(lowReqs) : lowReqs[i].page # r.page
  /\ fin1 = [fin EXCEPT ![r.entry] = x]
  /\ r.code = "TxDMA" => \A m \in DOMAIN r.moves : \A u \in Moved(r.moves[m]) :
                           Agrees(x[u], r.expect[(u - r.moves[1].at) \div LBA_SIZE + 1])

\* So does one that is made from the slice in hand.
LEMMA SelectFlows ==
  ASSUME TypeInv, NEW r, NEW s, NEW x, NEW w, NEW prg, NEW fin, NEW prg1, NEW fin1,
         SelectStep(r, s, x, w, prg, fin, prg1, fin1)
  PROVE  /\ pc' = s /\ x \in Content /\ fin1 \in [Entry -> Content]
         /\ \E w1 : FlowOK(w1, prg1, fin1)'
<1>0. /\ LowReq(r) /\ r.got = <<>> /\ Select(r, s) /\ nand' = nand
      /\ prg \in [Pages -> Content] /\ fin \in [Entry -> Content] /\ FlowOK(w, prg, fin)
      /\ x = IF r.code = "FETCH" THEN prg[r.page] ELSE Received(r, fin[r.entry])
      /\ r.code # "PROGRAM" => prg1 = prg
      /\ r.code = "PROGRAM" => /\ prg1[r.page] = x
                               /\ \A p \in Pages : p # r.page => prg1[p] = prg[p]
                               /\ \A i \in 1 .. Len(lowReqs) : lowReqs[i].page # r.page
      /\ fin1 = [fin EXCEPT ![r.entry] = x]
      /\ r.code = "TxDMA" => \A m \in DOMAIN r.moves : \A u \in Moved(r.moves[m]) :
                               Agrees(x[u], r.expect[(u - r.moves[1].at) \div LBA_SIZE + 1])
  BY DEF SelectStep
<1> USE <1>0
<1>1. /\ IsReq(r) /\ r.entry \in Entry /\ (r.code = "RxDMA" => r.val \in Val \cup {NONE})
      /\ (~ IsDma(r) => r.page \in Pages)
  BY ReceivedVal DEF LowReq
<1>2. IsSeq(lowReqs) /\ data \in [Entry -> Content]
  BY Types DEF LowReqsOK
<1>3. PICK n : n = Len(lowReqs)
  OBVIOUS
<1>4. PICK e \in Entry : e = r.entry
  BY <1>1
<1>5. PICK q : q = lowReqs'[n + 1]
  OBVIOUS
<1> DEFINE now == IsDma(r) /\ Alone(lowReqs, e)
<1>6. /\ pc' = s /\ IsSeq(lowReqs') /\ n \in Nat /\ Len(lowReqs') = n + 1
      /\ \A i \in 1 .. n : lowReqs'[i] = lowReqs[i]
      /\ SameButGot(q, r)
      /\ q.got = IF now /\ r.code = "TxDMA" THEN Got(r, data[e]) ELSE r.got
      /\ \A f \in Entry : data'[f] = IF now /\ f = e THEN Received(r, data[f]) ELSE data[f]
      /\ data' \in [Entry -> Content]
  BY <1>1, <1>2, <1>3, <1>4, <1>5, SelectIs
<1>7. Appended
  BY <1>3, <1>6 DEF Appended
<1>8. q.code = r.code /\ q.page = r.page /\ q.moves = r.moves /\ q.expect = r.expect /\ q.entry = e
  BY <1>4, <1>6 DEF SameButGot
<1>9. \A d : Received(q, d) = Received(r, d) /\ Got(q, d) = Got(r, d)
  BY <1>6, SameReceived
<1>10. x \in Content
  <2>1. CASE r.code = "FETCH"
    BY <1>1, <2>1 DEF IsDma
  <2>2. CASE r.code # "FETCH"
    <3>1. x = Received(r, fin[e])
      BY <1>4, <2>2
    <3> QED
      BY <1>1, <3>1, ReceivedIs
  <2> QED
    BY <2>1, <2>2
<1>11. fin1 \in [Entry -> Content]
  BY <1>4, <1>10
<1>12. r.code # "RxDMA" => \A d : Received(r, d) = d
  BY DEF Received
<1>13. ~ IsDma(r) => data' = data
  BY DEF Select
<1>14. q.code = "FETCH" => data' = data
  BY <1>8, <1>13 DEF IsDma
<1>15. q.code # "FETCH" =>
         \A f \in Entry : data'[f] = IF Alone(lowReqs, e) /\ f = e THEN Received(q, data[f]) ELSE data[f]
  <2>1. SUFFICES ASSUME NEW f \in Entry
                 PROVE  data'[f] = IF Alone(lowReqs, e) /\ f = e THEN Received(q, data[f]) ELSE data[f]
    OBVIOUS
  <2>2. CASE IsDma(r)
    BY <1>6, <1>9, <2>2
  <2>3. CASE ~ IsDma(r)
    <3>1. data' = data /\ Received(q, data[f]) = data[f]
      BY <1>9, <1>12, <1>13, <2>3 DEF IsDma
    <3> QED
      BY <3>1
  <2> QED
    BY <2>2, <2>3
<1>16. ReadOK(q, x)
  <2>1. SUFFICES ASSUME r.code = "TxDMA"
                 PROVE  /\ q.got = <<>> \/ q.got = Got(q, x)
                        /\ \A m \in DOMAIN q.moves : \A u \in Moved(q.moves[m]) :
                             Agrees(x[u], q.expect[(u - q.moves[1].at) \div LBA_SIZE + 1])
    BY <1>8, Zenon DEF ReadOK
  <2>2. x = fin[e]
    BY <1>4, <1>12, <2>1
  <2>3. q.got = <<>> \/ q.got = Got(q, x)
    <3>1. CASE now
      <4>1. fin[e] = data[e]
        BY <3>1 DEF FlowOK
      <4> QED
        BY <1>6, <1>9, <2>1, <2>2, <3>1, <4>1
    <3>2. CASE ~ now
      BY <1>6, <3>2
    <3> QED
      BY <3>1, <3>2
  <2>4. \A m \in DOMAIN r.moves : \A u \in Moved(r.moves[m]) :
          Agrees(x[u], r.expect[(u - r.moves[1].at) \div LBA_SIZE + 1])
    BY <2>1
  <2> QED
    BY <1>8, <2>3, <2>4, Zenon
<1>17. PICK w1 : w1 = [i \in 1 .. n + 1 |-> IF i = n + 1 THEN x ELSE w[i]]
  OBVIOUS
<1>18. x = IF q.code = "FETCH" THEN prg[q.page] ELSE Received(q, fin[e])
  BY <1>4, <1>8, <1>9
<1>19. fin1 = [fin EXCEPT ![e] = x]
  BY <1>4
<1>20. q.code # "PROGRAM" => prg1 = prg
  BY <1>8
<1>21. q.code = "PROGRAM" => /\ q.page \in Pages /\ prg1[q.page] = x
                             /\ \A p \in Pages : p # q.page => prg1[p] = prg[p]
                             /\ \A i \in 1 .. n : lowReqs[i].page # q.page
  BY <1>1, <1>3, <1>8 DEF IsDma
<1>22. e = q.entry
  BY <1>8
<1> HIDE DEF now
<1>23. FlowStep(n, q, e, x, w, prg, fin, w1, prg1, fin1)
  BY <1>3, <1>5, <1>7, <1>14, <1>15, <1>16, <1>17, <1>18, <1>19, <1>20, <1>21, <1>22, Zenon DEF FlowStep
<1>24. FlowOK(w1, prg1, fin1)'
  BY <1>23, FlowAppend, Zenon
<1> QED
  BY <1>6, <1>10, <1>11, <1>24

\* What the store is after an entry was given to another slice: what was new in
\* it is on the page it was written to.
MissStep(e, l0, prg, fin, prg1, fin1) ==
  /\ UNCHANGED <<sliceReqQ, req, disk>> /\ pc = "find" /\ pc' = "fetch" /\ entry' = e
  /\ \A f \in Entry : f # e => lsaOf'[f] = lsaOf[f] /\ dirty'[f] = dirty[f]
  /\ StoreOK(prg, fin)
  /\ \A f \in Entry : f # e => fin1[f] = fin[f]
  /\ l0 = lsaOf[e]
  /\ \A l \in LSAs : ~ (dirty[e] /\ l = l0) => map'[l] = map[l]
  /\ \A l \in LSAs, p \in Pages : ~ (dirty[e] /\ l = l0) /\ map[l] = p => prg1[p] = prg[p]
  /\ dirty[e] => map'[l0] # NoPage /\ \A p \in Pages : map'[l0] = p => prg1[p] = fin[e]

\* What is stored after an entry changed its slice.
LEMMA StoreAfterMiss ==
  ASSUME NEW e \in Entry, NEW l0, NEW prg, NEW fin, NEW prg1, NEW fin1,
         MissStep(e, l0, prg, fin, prg1, fin1)
  PROVE  StoreOK(prg1, fin1)'
<1>0. /\ UNCHANGED <<sliceReqQ, req, disk>> /\ pc = "find" /\ pc' = "fetch" /\ entry' = e
      /\ \A f \in Entry : f # e => lsaOf'[f] = lsaOf[f] /\ dirty'[f] = dirty[f]
      /\ StoreOK(prg, fin)
      /\ \A f \in Entry : f # e => fin1[f] = fin[f]
      /\ l0 = lsaOf[e]
      /\ \A l \in LSAs : ~ (dirty[e] /\ l = l0) => map'[l] = map[l]
      /\ \A l \in LSAs, p \in Pages : ~ (dirty[e] /\ l = l0) /\ map[l] = p => prg1[p] = prg[p]
      /\ dirty[e] => map'[l0] # NoPage /\ \A p \in Pages : map'[l0] = p => prg1[p] = fin[e]
  BY DEF MissStep
<1> USE <1>0
<1>1. CurKept
  BY PendSame, CurStays
<1>2. ASSUME NEW f \in Entry, NEW l \in LSAs, lsaOf'[f] = l, ~ (pc' = "fetch" /\ f = entry')
      PROVE  CurOK(fin1[f], l)'
  <2>1. CurOK(fin[f], l) /\ fin1[f] = fin[f]
    BY <1>2 DEF StoreOK
  <2> QED
    BY <1>1, <2>1 DEF CurKept
<1>3. ASSUME NEW l \in LSAs, ~ DirtyOf(l)', ~ (dirty[e] /\ l = l0)
      PROVE  ~ DirtyOf(l)
  <2>1. SUFFICES ASSUME NEW f \in Entry, lsaOf[f] = l, dirty[f] PROVE FALSE
    BY DEF DirtyOf
  <2>2. f # e
    BY <1>3, <2>1
  <2>3. lsaOf'[f] = l /\ dirty'[f]
    BY <2>1, <2>2
  <2> QED
    BY <1>3, <2>3 DEF DirtyOf
<1>4. ASSUME NEW l \in LSAs, ~ DirtyOf(l)', map'[l] = NoPage
      PROVE  CurOK(Nothing, l)'
  <2>1. ~ (dirty[e] /\ l = l0)
    BY <1>4
  <2>2. ~ DirtyOf(l) /\ map[l] = NoPage
    BY <1>3, <1>4, <2>1
  <2> QED
    BY <1>1, <2>2 DEF StoreOK, CurKept
<1>5. ASSUME NEW l \in LSAs, NEW p \in Pages, ~ DirtyOf(l)', map'[l] = p
      PROVE  CurOK(prg1[p], l)'
  <2>1. CASE ~ (dirty[e] /\ l = l0)
    <3>1. ~ DirtyOf(l) /\ map[l] = p /\ prg1[p] = prg[p]
      BY <1>3, <1>5, <2>1
    <3> QED
      BY <1>1, <3>1 DEF StoreOK, CurKept
  <2>2. CASE dirty[e] /\ l = l0
    <3>1. CurOK(fin[e], l) /\ prg1[p] = fin[e]
      BY <1>5, <2>2 DEF StoreOK
    <3> QED
      BY <1>1, <3>1 DEF CurKept
  <2> QED
    BY <2>1, <2>2
<1> QED
  BY <1>2, <1>4, <1>5 DEF StoreOK

\* A dirty entry leaves what it will hold on the page of its old slice.
LEMMA MissFlows ==
  ASSUME TypeInv, FlowInv, NEW e \in Entry, Miss(e)
  PROVE  FlowInv'
<1>0. PICK w : \E prg \in [Pages -> Content], fin \in [Entry -> Content] : FlowOK(w, prg, fin) /\ StoreOK(prg, fin)
  BY DEF FlowInv
<1>1. PICK prg \in [Pages -> Content], fin \in [Entry -> Content] : FlowOK(w, prg, fin) /\ StoreOK(prg, fin)
  BY <1>0
<1>2. /\ UNCHANGED <<sliceReqQ, req, nand, disk>> /\ pc = "find" /\ entry' = e
      /\ (dirty[e] => FreeSlots(1))
      /\ lsaOf' = [lsaOf EXCEPT ![e] = req.lsa] /\ dirty' = [dirty EXCEPT ![e] = FALSE]
  BY DEF Miss, MustWriteBack, Reuse
<1>3. \A f \in Entry : f # e => lsaOf'[f] = lsaOf[f] /\ dirty'[f] = dirty[f]
  BY <1>2, Types
<1>4. CASE dirty[e]
  <2>1. Select(NandReq("PROGRAM", e, FreePage), "fetch") /\ map' = [map EXCEPT ![lsaOf[e]] = FreePage]
    BY <1>4 DEF Miss, MustWriteBack
  <2>2. FreePage \in Pages /\ ~ InUse(FreePage)
    <3>1. Busy
      BY <1>2 DEF Busy
    <3>2. Len(lowReqs) < Slots
      BY <1>2, <1>4, <3>1, RoomForPage
    <3>3. map \in [LSAs -> Pages \cup {NoPage}] /\ IsSeq(lowReqs)
      BY Types DEF LowReqsOK
    <3> QED
      BY <3>2, <3>3, FreePageIs
  <2>3. PICK p \in Pages : p = FreePage
    BY <2>2
  <2>4. (\A l \in LSAs : map[l] # p) /\ \A i \in 1 .. Len(lowReqs) : lowReqs[i].page # p
    BY <2>2, <2>3, Types DEF InUse
  <2>5. PICK r : r = NandReq("PROGRAM", e, p)
    OBVIOUS
  <2>6. Select(r, "fetch")
    BY <2>1, <2>3, <2>5
  <2>7. LowReq(r) /\ r.got = <<>>
    BY <2>5, NandReqIsLow
  <2>8. r.code = "PROGRAM" /\ r.entry = e /\ r.page = p
    BY <2>5 DEF NandReq
  <2>9. Received(r, fin[r.entry]) = fin[e]
    BY <2>8 DEF Received
  <2>10. PICK x : x = fin[e]
    OBVIOUS
  <2>11. PICK prg1 : prg1 = [prg EXCEPT ![p] = x]
    OBVIOUS
  <2>12. PICK fin1 : fin1 = [fin EXCEPT ![r.entry] = x]
    OBVIOUS
  <2>13. prg1[p] = x /\ \A q \in Pages : q # p => prg1[q] = prg[q]
    BY <2>11
  <2>14. x = IF r.code = "FETCH" THEN prg[r.page] ELSE Received(r, fin[r.entry])
    BY <2>8, <2>9, <2>10
  <2>23. SelectStep(r, "fetch", x, w, prg, fin, prg1, fin1)
    BY <1>1, <1>2, <2>4, <2>6, <2>7, <2>8, <2>12, <2>13, <2>14 DEF SelectStep
  <2>15. /\ pc' = "fetch" /\ x \in Content /\ fin1 \in [Entry -> Content]
         /\ \E w1 : FlowOK(w1, prg1, fin1)'
    BY <2>23, SelectFlows, Zenon
  <2>16. prg1 \in [Pages -> Content]
    BY <2>11, <2>15
  <2>17. PICK l0 : l0 = lsaOf[e]
    OBVIOUS
  <2>18. l0 \in LSAs
    BY <1>4, <2>17, Types DEF DirectoryOK, Holds
  <2>19. map'[l0] = p /\ \A l \in LSAs : l # l0 => map'[l] = map[l]
    BY <2>1, <2>3, <2>17, <2>18, Types
  <2>20. NoPage \notin Pages
    BY PagesAssumption
  <2>21. \A f \in Entry : f # e => fin1[f] = fin[f]
    BY <2>8, <2>12
  <2>22. StoreOK(prg1, fin1)'
    <3>1. \A l \in LSAs : ~ (dirty[e] /\ l = l0) => map'[l] = map[l]
      BY <1>4, <2>19
    <3>2. \A l \in LSAs, q \in Pages : ~ (dirty[e] /\ l = l0) /\ map[l] = q => prg1[q] = prg[q]
      BY <2>4, <2>13
    <3>3. dirty[e] => map'[l0] # NoPage /\ \A q \in Pages : map'[l0] = q => prg1[q] = fin[e]
      BY <2>10, <2>13, <2>19, <2>20
    <3>4. MissStep(e, l0, prg, fin, prg1, fin1)
      BY <1>1, <1>2, <1>3, <2>15, <2>17, <2>21, <3>1, <3>2, <3>3, Zenon DEF MissStep
    <3> QED
      BY <3>4, StoreAfterMiss, Zenon
  <2> QED
    BY <2>15, <2>16, <2>22, Zenon DEF FlowInv
<1>5. CASE ~ dirty[e]
  <2>1. pc' = "fetch" /\ UNCHANGED <<map, lowReqs, data>>
    BY <1>5 DEF Miss, MustWriteBack
  <2>2. FlowOK(w, prg, fin)'
    BY <1>1, <1>2, <2>1, FlowStays
  <2>3. PICK l0 : l0 = lsaOf[e]
    OBVIOUS
  <2>4. StoreOK(prg, fin)'
    <3>1. MissStep(e, l0, prg, fin, prg, fin)
      BY <1>1, <1>2, <1>3, <1>5, <2>1, <2>3 DEF MissStep
    <3> QED
      BY <3>1, StoreAfterMiss, Zenon
  <2> QED
    BY <2>2, <2>4, Zenon DEF FlowInv
<1> QED
  BY <1>4, <1>5

\* A write of a whole slice leaves nothing to be read.
LEMMA WholeSlice ==
  ASSUME TypeInv, Busy, req.code = "WRITE", req.num = NVME_BLOCKS_PER_SLICE, NEW u \in Units
  PROVE  Touches(req, u)
<1> DEFINE k == SliceCount(cmd) - Len(sliceReqQ)
<1>1. cmd \in Commands /\ k \in 1 .. SliceCount(cmd) /\ OfSlice(req, cmd, k)
  BY InHandIs DEF NextSlice, IsSliceReq
<1> HIDE DEF k
<1>2. PICK c \in Commands : c = cmd
  BY <1>1
<1>3. PICK r : r = req
  OBVIOUS
<1>4. k \in 1 .. SliceCount(c) /\ OfSlice(r, c, k) /\ r.num = NVME_BLOCKS_PER_SLICE
  BY <1>1, <1>2, <1>3
<1> DEFINE n == NumOfNvmeBlock(c, k)
           o == NvmeBlockOffset(c, k)
<1>5. n = NVME_BLOCKS_PER_SLICE /\ n \in {1, 2} /\ o \in {0, 1} /\ o + n <= NVME_BLOCKS_PER_SLICE
  <2>1. IsCommand(c) /\ n = NVME_BLOCKS_PER_SLICE
    BY <1>4, CommandsAre DEF OfSlice
  <2> QED
    BY <1>4, <2>1, SliceSizes, SlicesAre DEF IsSlice
<1>6. Base(c, k) = (IF o = 0 THEN 0 ELSE LBA_SIZE) /\ SliceEnd(c, k) = Base(c, k) + IF n = 1 THEN LBA_SIZE ELSE LBA_SIZE + LBA_SIZE
  BY DEF Base, SliceEnd
<1> HIDE DEF n, o
<1>7. o = 0
  BY <1>5
<1>8. u \in Nat /\ LBA_SIZE \in Nat \ {0} /\ u < (IF n = 1 THEN LBA_SIZE ELSE LBA_SIZE + LBA_SIZE)
  <2>1. LBA_SIZE \in Nat \ {0}
    BY SizesAssumption
  <2>2. CASE n = 1
    BY <1>5, <2>1, <2>2 DEF Units
  <2>3. CASE n = 2
    BY <1>5, <2>1, <2>3 DEF Units
  <2> QED
    BY <1>5, <2>1, <2>2, <2>3
<1>9. u \in Base(c, k) .. SliceEnd(c, k) - 1
  BY <1>5, <1>6, <1>7, <1>8
<1>10. Touches(r, u)
  BY <1>4, <1>9, TouchesIs
<1> QED
  BY <1>3, <1>10

\* No other entry holds the slice in hand.
LEMMA OneEntry ==
  ASSUME TypeInv, pc \in {"fetch", "dma"}, NEW e \in Entry, e = entry, NEW f \in Entry, lsaOf[f] = req.lsa
  PROVE  f = e
<1>1. lsaOf[e] = req.lsa /\ req.lsa \in LSAs
  BY InHandIs, Types DEF QueueOK, Busy
<1>2. Holds(f)
  BY <1>1, CommandsAssumption DEF Holds, LSA_NONE
<1> QED
  BY <1>1, <1>2, Types DEF ListsAgree

\* The entry gets what the page will hold; or nobody has written the slice; or the
\* slice is written from end to end.
LEMMA DataReadFromNandFlows ==
  ASSUME TypeInv, FlowInv, DataReadFromNand
  PROVE  FlowInv'
<1>0. PICK w : \E prg \in [Pages -> Content], fin \in [Entry -> Content] : FlowOK(w, prg, fin) /\ StoreOK(prg, fin)
  BY DEF FlowInv
<1>1. PICK prg \in [Pages -> Content], fin \in [Entry -> Content] : FlowOK(w, prg, fin) /\ StoreOK(prg, fin)
  BY <1>0
<1>2. /\ pc = "fetch" /\ UNCHANGED <<sliceReqQ, req, entry, map, nand, disk, lsaOf, dirty>>
  BY DEF DataReadFromNand, dataBufVars
<1>3. Busy /\ req.lsa \in LSAs /\ req # NoReq /\ req.code \in {"READ", "WRITE"}
  BY <1>2, InHandIs DEF Busy
<1>4. PICK e \in Entry : e = entry
  BY Types
<1>5. PICK l0 \in LSAs : l0 = req.lsa
  BY <1>3
<1>6. lsaOf[e] = l0 /\ ~ dirty[e]
  BY <1>2, <1>4, <1>5, Types DEF QueueOK
<1>7. \A f \in Entry : lsaOf[f] = l0 => f = e
  BY <1>2, <1>4, <1>5, OneEntry
<1>8. ~ DirtyOf(l0)
  BY <1>6, <1>7 DEF DirtyOf
<1>9. CurKept
  BY <1>2, PendSame, CurStays
\* The store, once the entry is as new as the flash.
<1>10. ASSUME NEW fin1, pc' = "dma", \A f \in Entry : f # e => fin1[f] = fin[f], CurOK(fin1[e], l0)
       PROVE  StoreOK(prg, fin1)'
  <2>1. ASSUME NEW f \in Entry, NEW l \in LSAs, lsaOf'[f] = l
        PROVE  CurOK(fin1[f], l)'
    <3>1. CASE f = e
      <4>1. l = l0
        BY <1>2, <1>6, <2>1, <3>1
      <4> QED
        BY <1>9, <1>10, <3>1, <4>1 DEF CurKept
    <3>2. CASE f # e
      <4>1. CurOK(fin[f], l) /\ fin1[f] = fin[f]
        BY <1>1, <1>2, <1>4, <1>10, <2>1, <3>2 DEF StoreOK
      <4> QED
        BY <1>9, <4>1 DEF CurKept
    <3> QED
      BY <3>1, <3>2
  <2>2. \A l : DirtyOf(l)' <=> DirtyOf(l)
    BY <1>2 DEF DirtyOf
  <2>3. ASSUME NEW l \in LSAs, ~ DirtyOf(l)', map'[l] = NoPage
        PROVE  CurOK(Nothing, l)'
    BY <1>1, <1>2, <1>9, <2>2, <2>3 DEF StoreOK, CurKept
  <2>4. ASSUME NEW l \in LSAs, NEW p \in Pages, ~ DirtyOf(l)', map'[l] = p
        PROVE  CurOK(prg[p], l)'
    BY <1>1, <1>2, <1>9, <2>2, <2>4 DEF StoreOK, CurKept
  <2> QED
    BY <2>1, <2>3, <2>4 DEF StoreOK
<1>11. CASE NeedsRead /\ map[req.lsa] # NoPage
  <2>1. PICK p \in Pages : p = map[l0]
    BY <1>5, <1>11, Types
  <2>2. PICK r : r = NandReq("FETCH", e, p)
    OBVIOUS
  <2>3. Select(r, "dma")
    BY <1>4, <1>5, <1>11, <2>1, <2>2 DEF DataReadFromNand
  <2>4. LowReq(r) /\ r.got = <<>>
    BY <2>2, NandReqIsLow
  <2>5. r.code = "FETCH" /\ r.entry = e /\ r.page = p
    BY <2>2 DEF NandReq
  <2>6. PICK x : x = prg[p]
    OBVIOUS
  <2>7. PICK fin1 : fin1 = [fin EXCEPT ![r.entry] = x]
    OBVIOUS
  <2>8. SelectStep(r, "dma", x, w, prg, fin, prg, fin1)
    BY <1>1, <1>2, <2>3, <2>4, <2>5, <2>6, <2>7 DEF SelectStep
  <2>9. /\ pc' = "dma" /\ x \in Content /\ fin1 \in [Entry -> Content]
        /\ \E w1 : FlowOK(w1, prg, fin1)'
    BY <2>8, SelectFlows, Zenon
  <2>10. fin1[e] = x /\ \A f \in Entry : f # e => fin1[f] = fin[f]
    BY <2>5, <2>7
  <2>11. CurOK(fin1[e], l0)
    BY <1>1, <1>8, <2>1, <2>6, <2>10 DEF StoreOK
  <2>12. StoreOK(prg, fin1)'
    BY <1>10, <2>9, <2>10, <2>11
  <2> QED
    BY <2>9, <2>12, Zenon DEF FlowInv
<1>12. CASE ~ (NeedsRead /\ map[req.lsa] # NoPage)
  <2>1. pc' = "dma" /\ UNCHANGED <<lowReqs, data>>
    BY <1>12 DEF DataReadFromNand
  <2>2. FlowOK(w, prg, fin)'
    BY <1>1, <1>2, <2>1, FlowStays
  <2>3. CurOK(fin[e], l0)
    <3>1. SUFFICES ASSUME NEW u \in Units, ~ Pend(l0, u) PROVE Agrees(fin[e][u], Slice(l0)[u])
      BY DEF CurOK
    <3>2. map[l0] = NoPage
      <4>1. SUFFICES ASSUME ~ NeedsRead PROVE FALSE
        BY <1>5, <1>12
      <4>2. req.code = "WRITE" /\ req.num = NVME_BLOCKS_PER_SLICE
        BY <1>3, <4>1 DEF NeedsRead
      <4>3. Touches(req, u)
        BY <1>3, <4>2, WholeSlice
      <4> QED
        BY <1>3, <1>5, <3>1, <4>2, <4>3 DEF Pend
    <3>3. CurOK(Nothing, l0)
      BY <1>1, <1>8, <3>2 DEF StoreOK
    <3>4. Agrees(NONE, Slice(l0)[u])
      BY <3>1, <3>3 DEF CurOK, Nothing
    <3> QED
      BY <3>4 DEF Agrees
  <2>4. StoreOK(prg, fin)'
    BY <1>10, <2>1, <2>3
  <2> QED
    BY <2>2, <2>4, Zenon DEF FlowInv
<1> QED
  BY <1>11, <1>12

\* What a read of the slice in hand expects is what the host wrote last, and a
\* write of it is already on the disk.
LEMMA SliceInHand ==
  ASSUME TypeInv, Busy, NEW u, Touches(req, u)
  PROVE  /\ u \in Units
         /\ req.code = "READ" =>
              Slice(req.lsa)[u] = req.expect[(u - req.moves[1].at) \div LBA_SIZE + 1]
         /\ req.code = "WRITE" => Slice(req.lsa)[u] = req.val
<1> DEFINE k == SliceCount(cmd) - Len(sliceReqQ)
<1>1. /\ cmd \in Commands /\ k \in 1 .. SliceCount(cmd) /\ OfSlice(req, cmd, k) /\ req.code = cmd.op
      /\ cmd.op = "READ" => req.expect = Expected(cmd, k)
      /\ cmd.op = "WRITE" => \A b \in cmd.lba .. cmd.lba + cmd.nlb : disk[b] = cmd.val
  BY InHandIs, Types DEF NextSlice, IsSliceReq, QueueOK, Busy
<1> HIDE DEF k
<1>2. PICK c \in Commands : c = cmd
  BY <1>1
<1>3. PICK r : r = req
  OBVIOUS
<1>4. k \in 1 .. SliceCount(c) /\ OfSlice(r, c, k) /\ Touches(r, u)
  BY <1>1, <1>2, <1>3
<1>5. PICK v \in Base(c, k) .. SliceEnd(c, k) - 1 : v = u
  BY <1>4, TouchesIs
<1> DEFINE l == LogicalSliceAddr(c, k)
           x == (v - Base(c, k)) \div LBA_SIZE
<1>6. /\ v \in Units
      /\ l * NVME_BLOCKS_PER_SLICE + v \div LBA_SIZE \in c.lba .. c.lba + c.nlb
      /\ x \in 0 .. NumOfNvmeBlock(c, k) - 1
      /\ x + NvmeBlockOffset(c, k) = v \div LBA_SIZE
  BY <1>4, UnitOfSlice
<1>7. r.lsa = l /\ r.val = c.val /\ r.moves = Moves(c, k)
  BY <1>4 DEF OfSlice
<1>8. Slice(l)[v] = disk[l * NVME_BLOCKS_PER_SLICE + v \div LBA_SIZE]
  BY <1>6 DEF Slice
<1>9. r.moves[1].at = Base(c, k)
  <2>1. IsCommand(c)
    BY CommandsAre
  <2>2. /\ 1 \in 1 .. MoveCount(c, k) /\ Moves(c, k)[1] = Move(c, k, 1)
    <3>1. 1 \in 1 .. MoveCount(c, k)
      BY <1>4, <2>1, SliceSizes DEF MoveCount
    <3> QED
      BY <1>4, <2>1, <3>1, MovesAre
  <2>3. MoveAt(c, k, 1) = Base(c, k)
    BY SizesAssumption DEF MoveAt, Base
  <2> QED
    BY <1>7, <2>2, <2>3 DEF Move
<1>10. ASSUME r.code = "READ"
       PROVE  Slice(l)[v] = r.expect[(v - r.moves[1].at) \div LBA_SIZE + 1]
  <2>1. r.expect = Expected(c, k)
    BY <1>1, <1>2, <1>3, <1>10
  <2>2. (v - r.moves[1].at) \div LBA_SIZE + 1 = x + 1
    BY <1>9
  <2>3. l \in Nat /\ NvmeBlockOffset(c, k) \in {0, 1} /\ NumOfNvmeBlock(c, k) \in Nat /\ NVME_BLOCKS_PER_SLICE \in Nat
    BY <1>4, CommandsAre, SliceSizes, SlicesAre, SizesAssumption DEF IsSlice
  <2>4. PICK lb : lb = l * NVME_BLOCKS_PER_SLICE
    OBVIOUS
  <2>5. lb \in Nat
    BY <2>3, <2>4
  <2>6. PICK y : y = x + 1
    OBVIOUS
  <2>7. y \in 1 .. NumOfNvmeBlock(c, k)
    <3>1. PICK z \in 0 .. NumOfNvmeBlock(c, k) - 1 : z = x
      BY <1>6
    <3> QED
      BY <2>3, <2>6, <3>1
  <2>8. r.expect[y] = disk[lb + NvmeBlockOffset(c, k) + y - 1]
    BY <2>1, <2>4, <2>7 DEF Expected
  <2>9. lb + NvmeBlockOffset(c, k) + y - 1 = lb + v \div LBA_SIZE
    <3>1. PICK z \in 0 .. NumOfNvmeBlock(c, k) - 1 : z = x
      BY <1>6
    <3>2. PICK t : t = v \div LBA_SIZE
      OBVIOUS
    <3>3. z + NvmeBlockOffset(c, k) = t /\ y = z + 1
      BY <1>6, <2>6, <3>1, <3>2
    <3> HIDE DEF x
    <3>4. lb + NvmeBlockOffset(c, k) + y - 1 = lb + t
      BY <2>3, <2>5, <3>1, <3>3
    <3> QED
      BY <3>2, <3>4
  <2> QED
    BY <1>8, <2>2, <2>4, <2>6, <2>8, <2>9
<1>11. ASSUME r.code = "WRITE"
       PROVE  Slice(l)[v] = r.val
  BY <1>1, <1>2, <1>3, <1>6, <1>7, <1>8, <1>11
<1> QED
  BY <1>3, <1>5, <1>6, <1>7, <1>10, <1>11

\* A write comes to its entry; a read takes what the disk says.
LEMMA SliceToDmaFlows ==
  ASSUME TypeInv, FlowInv, SliceToDma
  PROVE  FlowInv'
<1>0. PICK w : \E prg \in [Pages -> Content], fin \in [Entry -> Content] : FlowOK(w, prg, fin) /\ StoreOK(prg, fin)
  BY DEF FlowInv
<1>1. PICK prg \in [Pages -> Content], fin \in [Entry -> Content] : FlowOK(w, prg, fin) /\ StoreOK(prg, fin)
  BY <1>0
<1>2. /\ pc = "dma" /\ dirty' = [dirty EXCEPT ![entry] = @ \/ Dirtied]
      /\ Select(DmaOf(req, entry), "slices") /\ req' = NoReq
      /\ UNCHANGED <<sliceReqQ, map, nand, disk, lsaOf>>
  BY Zenon DEF SliceToDma, DmaOf
<1>3. /\ Busy /\ req.lsa \in LSAs /\ req # NoReq /\ req.code \in {"READ", "WRITE"} /\ req.code = cmd.op
      /\ IsReq(req) /\ (req.code = "WRITE" => req.val \in Val)
  BY <1>2, InHandIs DEF Busy, NextSlice
<1>4. PICK e \in Entry : e = entry
  BY Types
<1>5. PICK l0 \in LSAs : l0 = req.lsa
  BY <1>3
<1>6. lsaOf[e] = l0
  BY <1>2, <1>4, <1>5, Types DEF QueueOK
<1>7. \A f \in Entry : lsaOf[f] = l0 => f = e
  BY <1>2, <1>4, <1>5, OneEntry
<1>8. PICK r : r = DmaOf(req, e)
  OBVIOUS
<1>9. Select(r, "slices") /\ LowReq(r) /\ r.got = <<>>
  BY <1>2, <1>3, <1>4, <1>8, DmaOfReq
<1>10. /\ r.code = IF req.code = "WRITE" THEN "RxDMA" ELSE "TxDMA"
       /\ r.val = req.val /\ r.moves = req.moves /\ r.expect = req.expect /\ r.entry = e
  BY <1>3, <1>8, DmaOfIs
<1>11. PICK x : x = Received(r, fin[e])
  OBVIOUS
<1>12. PICK fin1 : fin1 = [fin EXCEPT ![r.entry] = x]
  OBVIOUS
<1>13. fin1[e] = x /\ \A f \in Entry : f # e => fin1[f] = fin[f]
  BY <1>10, <1>12
<1>14. \A u \in Units : x[u] = IF req.code = "WRITE" /\ Touches(req, u) THEN req.val ELSE fin[e][u]
  <2>1. r.code = "RxDMA" => r.val \in Val \cup {NONE}
    BY <1>3, <1>10
  <2>2. \A u : Touches(r, u) <=> Touches(req, u)
    BY <1>10 DEF Touches
  <2>3. \A u \in Units : x[u] = IF r.code = "RxDMA" /\ Touches(r, u) THEN r.val ELSE fin[e][u]
    BY <1>11, <2>1, ReceivedIs
  <2> QED
    BY <1>3, <1>10, <2>2, <2>3
\* The entry is, or will be, as new as the disk.
<1>15. CurOK(fin[e], l0)
  BY <1>1, <1>2, <1>6 DEF StoreOK
<1>16. ASSUME NEW l, NEW u, Pend(l, u), ~ Pend(l, u)'
       PROVE  req.code = "WRITE" /\ l = l0 /\ Touches(req, u)
  BY <1>2, <1>5, <1>16 DEF Pend
<1>17. CurOK(x, l0)'
  <2>1. SUFFICES ASSUME NEW u \in Units, ~ Pend(l0, u)' PROVE Agrees(x[u], Slice(l0)'[u])
    BY DEF CurOK, Agrees
  <2>2. Slice(l0)'[u] = Slice(l0)[u]
    BY <1>2 DEF Slice
  <2>3. CASE req.code = "WRITE" /\ Touches(req, u)
    <3>1. Slice(l0)[u] = req.val
      BY <1>3, <1>5, <2>3, SliceInHand
    <3> QED
      BY <1>14, <2>2, <2>3, <3>1 DEF Agrees
  <2>4. CASE ~ (req.code = "WRITE" /\ Touches(req, u))
    <3>1. ~ Pend(l0, u)
      BY <1>16, <2>1, <2>4
    <3>2. Agrees(fin[e][u], Slice(l0)[u])
      BY <1>15, <3>1 DEF CurOK
    <3> QED
      BY <1>14, <2>2, <2>4, <3>2
  <2> QED
    BY <2>3, <2>4
<1>18. ASSUME NEW y, NEW l \in LSAs, l # l0 \/ req.code # "WRITE", CurOK(y, l)
       PROVE  CurOK(y, l)'
  <2>1. \A u \in Units : Pend(l, u) => Pend(l, u)'
    BY <1>16, <1>18
  <2> QED
    BY <1>2, <1>18, <2>1, CurIs
<1>19. StoreOK(prg, fin1)'
  <2>1. ASSUME NEW f \in Entry, NEW l \in LSAs, lsaOf'[f] = l
        PROVE  CurOK(fin1[f], l)'
    <3>1. CASE f = e
      <4>1. l = l0
        BY <1>2, <1>6, <2>1, <3>1
      <4> QED
        BY <1>13, <1>17, <3>1, <4>1
    <3>2. CASE f # e
      <4>1. CurOK(fin[f], l) /\ fin1[f] = fin[f]
        BY <1>1, <1>2, <1>13, <2>1, <3>2 DEF StoreOK
      <4>2. l # l0
        BY <1>2, <1>7, <2>1, <3>2
      <4> QED
        BY <1>18, <4>1, <4>2
    <3> QED
      BY <3>1, <3>2
  <2>2. ASSUME NEW l \in LSAs, ~ DirtyOf(l)'
        PROVE  ~ DirtyOf(l) /\ (l # l0 \/ req.code # "WRITE")
    <3>1. dirty \in [Entry -> BOOLEAN]
      BY Types
    <3>2. \A f \in Entry : dirty[f] => dirty'[f]
      BY <1>2, <1>4, <3>1
    <3>3. req.code = "WRITE" => dirty'[e]
      BY <1>2, <1>4, <3>1 DEF Dirtied
    <3> QED
      BY <1>2, <1>6, <2>2, <3>2, <3>3 DEF DirtyOf
  <2>3. ASSUME NEW l \in LSAs, ~ DirtyOf(l)', map'[l] = NoPage
        PROVE  CurOK(Nothing, l)'
    <3>1. CurOK(Nothing, l)
      BY <1>1, <1>2, <2>2, <2>3 DEF StoreOK
    <3> QED
      BY <1>18, <2>2, <2>3, <3>1
  <2>4. ASSUME NEW l \in LSAs, NEW p \in Pages, ~ DirtyOf(l)', map'[l] = p
        PROVE  CurOK(prg[p], l)'
    <3>1. CurOK(prg[p], l)
      BY <1>1, <1>2, <2>2, <2>4 DEF StoreOK
    <3> QED
      BY <1>18, <2>2, <2>4, <3>1
  <2> QED
    BY <2>1, <2>3, <2>4 DEF StoreOK
\* What a read takes is what it expects.
<1>20. r.code = "TxDMA" => \A m \in DOMAIN r.moves : \A u \in Moved(r.moves[m]) :
                             Agrees(x[u], r.expect[(u - r.moves[1].at) \div LBA_SIZE + 1])
  <2>1. SUFFICES ASSUME r.code = "TxDMA", NEW m \in DOMAIN req.moves, NEW u \in Moved(req.moves[m])
                 PROVE  Agrees(x[u], req.expect[(u - req.moves[1].at) \div LBA_SIZE + 1])
    BY <1>10
  <2>2. req.code = "READ" /\ Touches(req, u)
    BY <1>3, <1>10, <2>1 DEF Touches
  <2>3. u \in Units /\ Slice(l0)[u] = req.expect[(u - req.moves[1].at) \div LBA_SIZE + 1]
    BY <1>3, <1>5, <2>2, SliceInHand
  <2>4. ~ Pend(l0, u)
    <3>1. \A j \in 1 .. Len(sliceReqQ) : sliceReqQ[j].code = cmd.op
      BY <1>2, Types DEF QueueOK, IsSliceReq
    <3> QED
      BY <1>3, <2>2, <3>1 DEF Pend
  <2>5. Agrees(fin[e][u], Slice(l0)[u])
    BY <1>15, <2>3, <2>4 DEF CurOK
  <2>6. x[u] = fin[e][u]
    BY <1>14, <2>2, <2>3
  <2> QED
    BY <2>3, <2>5, <2>6
<1>21. SelectStep(r, "slices", x, w, prg, fin, prg, fin1)
  <2>1. x = IF r.code = "FETCH" THEN prg[r.page] ELSE Received(r, fin[r.entry])
    BY <1>10, <1>11
  <2>2. r.code # "PROGRAM"
    BY <1>10
  <2> QED
    BY <1>1, <1>2, <1>9, <1>12, <1>20, <2>1, <2>2, Zenon DEF SelectStep
<1>22. /\ pc' = "slices" /\ x \in Content /\ fin1 \in [Entry -> Content]
       /\ \E w1 : FlowOK(w1, prg, fin1)'
  BY <1>21, SelectFlows, Zenon
<1> QED
  BY <1>1, <1>19, <1>22, Zenon DEF FlowInv

-----------------------------------------------------------------------------

\* The flow, as an invariant.
LEMMA FlowAlways == Spec => [](TypeInv /\ FlowInv)
<1>1. Init => TypeInv /\ FlowInv
  BY InitTypes, InitFlows
<1>2. TypeInv /\ FlowInv /\ [Next]_vars => (TypeInv /\ FlowInv)'
  <2>1. SUFFICES ASSUME TypeInv, FlowInv, [Next]_vars PROVE TypeInv' /\ FlowInv'
    OBVIOUS
  <2>2. CASE UNCHANGED vars
    BY <2>1, <2>2, StutterTypes, StutterFlows
  <2>3. CASE SliceReqQEmpty
    BY <2>1, <2>3, SliceReqQEmptyTypes, SliceReqQEmptyFlows
  <2>4. CASE GetFromSliceReqQ
    BY <2>1, <2>4, GetFromSliceReqQTypes, GetFromSliceReqQFlows
  <2>5. CASE DataReadFromNand
    BY <2>1, <2>5, DataReadFromNandTypes, DataReadFromNandFlows
  <2>6. CASE SliceToDma
    BY <2>1, <2>6, SliceToDmaTypes, SliceToDmaFlows
  <2>7. ASSUME NEW e \in Entry, Hit(e) PROVE TypeInv' /\ FlowInv'
    BY <2>1, <2>7, HitTypes, HitFlows
  <2>8. ASSUME NEW e \in Entry, Miss(e) PROVE TypeInv' /\ FlowInv'
    BY <2>1, <2>8, MissTypes, MissFlows
  <2>9. ASSUME NEW i \in 1 .. Len(lowReqs), EndRequest(i) PROVE TypeInv' /\ FlowInv'
    BY <2>1, <2>9, EndRequestTypes, EndRequestFlows
  <2>10. ASSUME NEW c \in Commands, TakeCommand(c) PROVE TypeInv' /\ FlowInv'
    BY <2>1, <2>10, TakeCommandTypes, TakeCommandFlows
  <2> QED
    BY <2>1, <2>2, <2>3, <2>4, <2>5, <2>6, <2>7, <2>8, <2>9, <2>10, Steps
<1> QED
  BY <1>1, <1>2, PTL DEF Spec

\* Both properties follow from the flow.
LEMMA ReadsFromFlow ==
  ASSUME TypeInv, FlowInv
  PROVE  ReadsRight
<1>0. PICK w : \E prg \in [Pages -> Content], fin \in [Entry -> Content] : FlowOK(w, prg, fin) /\ StoreOK(prg, fin)
  BY DEF FlowInv
<1>1. PICK prg \in [Pages -> Content], fin \in [Entry -> Content] : FlowOK(w, prg, fin) /\ StoreOK(prg, fin)
  BY <1>0
<1>2. ASSUME NEW i \in 1 .. Len(lowReqs), NEW r, r = lowReqs[i],
             NEW m \in DOMAIN r.got, NEW u \in DOMAIN r.got[m]
      PROVE  Agrees(r.got[m][u], r.expect[(u - r.moves[1].at) \div LBA_SIZE + 1])
  <2>1. LowReq(r)
    BY <1>2, Types DEF LowReqsOK
  <2>2. r.got # <<>>
    BY <1>2
  <2>3. r.code = "TxDMA"
    BY <2>1, <2>2 DEF LowReq
  <2>4. ReadOK(r, w[i])
    BY <1>1, <1>2 DEF FlowOK
  <2>5. PICK x : x = w[i]
    OBVIOUS
  <2>6. /\ r.got = Got(r, x)
        /\ \A k \in DOMAIN r.moves : \A v \in Moved(r.moves[k]) :
             Agrees(x[v], r.expect[(v - r.moves[1].at) \div LBA_SIZE + 1])
    BY <2>2, <2>3, <2>4, <2>5, Zenon DEF ReadOK
  <2>7. m \in DOMAIN r.moves /\ r.got[m] = [v \in Moved(r.moves[m]) |-> x[v]]
    BY <1>2, <2>6 DEF Got
  <2>8. u \in Moved(r.moves[m]) /\ r.got[m][u] = x[u]
    BY <1>2, <2>7
  <2> QED
    BY <2>6, <2>7, <2>8
<1>3. DOMAIN lowReqs = 1 .. Len(lowReqs)
  BY Types
<1> QED
  BY <1>2, <1>3 DEF ReadsRight

LEMMA NothingLostFromFlow ==
  ASSUME TypeInv, FlowInv
  PROVE  NothingLost
<1>0. PICK w : \E prg \in [Pages -> Content], fin \in [Entry -> Content] : FlowOK(w, prg, fin) /\ StoreOK(prg, fin)
  BY DEF FlowInv
<1>1. PICK prg \in [Pages -> Content], fin \in [Entry -> Content] : FlowOK(w, prg, fin) /\ StoreOK(prg, fin)
  BY <1>0
<1>2. SUFFICES ASSUME pc = "idle", lowReqs = <<>>, NEW l \in LSAs
               PROVE  /\ \A e \in Found(l) : Has(data[e], l)
                      /\ \/ \E e \in Found(l) : dirty[e]
                         \/ Has(IF map[l] = NoPage THEN Nothing ELSE nand[map[l]], l)
  BY DEF NothingLost
<1>3. sliceReqQ = <<>> /\ req = NoReq
  BY <1>2, Types DEF QueueOK, Busy
<1>4. \A u : ~ Pend(l, u)
  BY <1>3 DEF Pend
<1>5. \A x : CurOK(x, l) => Has(x, l)
  BY <1>4 DEF CurOK, Has
<1>6. (\A e \in Entry : fin[e] = data[e]) /\ \A p \in Pages : prg[p] = nand[p]
  BY <1>1, <1>2 DEF FlowOK, Alone, Programmed
<1>7. \A e \in Entry : e \in Found(l) <=> lsaOf[e] = l
  BY FoundIs, Types, CommandsAssumption
<1>8. \A e \in Found(l) : e \in Entry
  BY DEF Found
<1>9. ASSUME NEW e \in Found(l) PROVE Has(data[e], l)
  BY <1>1, <1>2, <1>5, <1>6, <1>7, <1>8, <1>9 DEF StoreOK
<1>10. ASSUME ~ \E e \in Found(l) : dirty[e]
       PROVE  Has(IF map[l] = NoPage THEN Nothing ELSE nand[map[l]], l)
  <2>1. ~ DirtyOf(l)
    BY <1>7, <1>10 DEF DirtyOf
  <2>2. CASE map[l] = NoPage
    BY <1>1, <1>5, <2>1, <2>2 DEF StoreOK
  <2>3. CASE map[l] # NoPage
    <3>1. PICK p \in Pages : p = map[l]
      BY <2>3, Types
    <3>2. CurOK(prg[p], l)
      BY <1>1, <2>1, <3>1 DEF StoreOK
    <3> QED
      BY <1>5, <1>6, <2>3, <3>1, <3>2
  <2> QED
    BY <2>2, <2>3
<1> QED
  BY <1>9, <1>10

\* A read brings, in every block the host ever wrote, what it had written last when
\* it sent the read: for any number of entries, slices, pages and commands, with
\* any of the writes before it still on their way to the flash or back, and
\* whatever order the requests of different entries end in.
THEOREM ReadsAlwaysRight == Spec => []ReadsRight
<1>1. TypeInv /\ FlowInv => ReadsRight
  BY ReadsFromFlow
<1> QED
  BY <1>1, FlowAlways, PTL

\* At rest, every slice is as new as the host's last write of it in its entry, if it
\* has one, and on its page, unless the entry is dirty: neither an eviction nor a
\* write of part of a slice loses anything.
THEOREM NothingEverLost == Spec => []NothingLost
<1>1. TypeInv /\ FlowInv => NothingLost
  BY NothingLostFromFlow
<1> QED
  BY <1>1, FlowAlways, PTL
=============================================================================
