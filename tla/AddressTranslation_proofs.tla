---------------------- MODULE AddressTranslation_proofs ----------------------
(***************************************************************************)
(* The inductive invariant of the mapping, for any number of dies, blocks, *)
(* pages and slices: the initial state has it, and every action keeps it   *)
(* as long as the collector does not erase an open block.                  *)
(*                                                                         *)
(* Then the reserve of the collector: the one block per die that the host  *)
(* may not take is always enough for the copies of a collection, and is    *)
(* always back when the collection is over.                                *)
(***************************************************************************)
EXTENDS AddressTranslation, FiniteSetTheorems, TLAPS

-----------------------------------------------------------------------------
\* Intrusive lists.  The three operations keep a chain a chain, and touch the
\* links of no element outside the list they work on.  Each proof exhibits the
\* sequence of the new list.

\* The links of the elements of S are the same in both.
SameLinks(was, now, S) ==
  \A e \in S : was.next[e] = now.next[e] /\ was.prev[e] = now.prev[e]

\* The empty list.
LEMMA EmptyIsList ==
  ASSUME NEW was PROVE IsList(EmptyList, was, {})
<1> DEFINE s == [i \in 1..0 |-> NONE]
<1>1. Cardinality({}) = 0
  BY FS_EmptySet
<1>2. s \in [1..0 -> {}]
  OBVIOUS
<1>3. IsChain(s, 0, EmptyList, was, {})
  BY DEF IsChain, EmptyList
<1> QED
  BY <1>1, <1>2, <1>3 DEF IsList

\* A list depends on the links of its own members only.
LEMMA IsListFrame ==
  ASSUME NEW list, NEW was, NEW now, NEW M,
         IsList(list, was, M), SameLinks(was, now, M)
  PROVE  IsList(list, now, M)
<1> DEFINE n == Cardinality(M)
<1>1. PICK s \in [1..n -> M] : IsChain(s, n, list, was, M)
  BY DEF IsList
<1>2. IsChain(s, n, list, now, M)
  BY <1>1 DEF IsChain, SameLinks
<1> QED
  BY <1>1, <1>2 DEF IsList

\* The ends of a list are members, or NONE when it is empty.
LEMMA IsListEnds ==
  ASSUME NEW list, NEW was, NEW M, IsFiniteSet(M), NONE \notin M,
         IsList(list, was, M)
  PROVE  /\ list.head = NONE <=> M = {}
         /\ list.tail = NONE <=> M = {}
         /\ list.head \in M \cup {NONE}
         /\ list.tail \in M \cup {NONE}
<1> DEFINE n == Cardinality(M)
<1>1. n \in Nat
  BY FS_CardinalityType
<1>2. n = 0 <=> M = {}
  BY FS_EmptySet
<1>3. PICK s \in [1..n -> M] : IsChain(s, n, list, was, M)
  BY DEF IsList
<1> QED
  BY <1>1, <1>2, <1>3 DEF IsChain

\* PutTail appends: PutToFbList, PutToGcVictimList.
LEMMA PutTailIsList ==
  ASSUME NEW Elems, NONE \notin Elems, NEW M \in SUBSET Elems, IsFiniteSet(M),
         NEW e \in Elems, e \notin M, NEW list, NEW was,
         was \in LinksOf(Elems), IsList(list, was, M)
  PROVE  /\ IsList(PutTail(list, was, e).list, PutTail(list, was, e).links, M \cup {e})
         /\ SameLinks(was, PutTail(list, was, e).links, Elems \ (M \cup {e}))
         /\ PutTail(list, was, e).links \in LinksOf(Elems)
<1> DEFINE n == Cardinality(M)
           new == PutTail(list, was, e)
<1>1. n \in Nat /\ Cardinality(M \cup {e}) = n + 1
  BY FS_CardinalityType, FS_AddElement
<1>2. PICK s \in [1..n -> M] : IsChain(s, n, list, was, M)
  BY DEF IsList
<1> DEFINE t == [i \in 1..(n + 1) |-> IF i = n + 1 THEN e ELSE s[i]]
<1>3. t \in [1..(n + 1) -> M \cup {e}]
  BY <1>1, <1>2
<1>4. CASE list.tail = NONE
  <2>1. n = 0 /\ M = {}
    BY <1>1, <1>2, <1>4 DEF IsChain
  <2>2. new = [list  |-> [head |-> e, tail |-> e],
               links |-> [prev |-> [was.prev EXCEPT ![e] = NONE],
                          next |-> [was.next EXCEPT ![e] = NONE]]]
    BY <1>4 DEF PutTail
  <2>3. IsChain(t, n + 1, new.list, new.links, M \cup {e})
    BY <2>1, <2>2 DEF IsChain, LinksOf
  <2>4. SameLinks(was, new.links, Elems \ (M \cup {e})) /\ new.links \in LinksOf(Elems)
    BY <2>2 DEF SameLinks, LinksOf
  <2> QED
    BY <1>1, <1>3, <2>3, <2>4 DEF IsList
<1>5. CASE list.tail # NONE
  <2>1. n > 0 /\ list.tail = s[n] /\ s[n] \in M /\ list.head = s[1]
    BY <1>1, <1>2, <1>5 DEF IsChain
  <2>2. new = [list  |-> [head |-> s[1], tail |-> e],
               links |-> [prev |-> [was.prev EXCEPT ![e] = s[n]],
                          next |-> [was.next EXCEPT ![e] = NONE, ![s[n]] = e]]]
    BY <1>5, <2>1 DEF PutTail
  <2>3. IsChain(t, n + 1, new.list, new.links, M \cup {e})
    <3>1. \A x \in M \cup {e} : \E i \in 1..(n + 1) : t[i] = x
      BY <1>1, <1>2 DEF IsChain
    <3>2. \A i, j \in 1..(n + 1) : t[i] = t[j] => i = j
      BY <1>1, <1>2 DEF IsChain
    <3>3. new.list.head = t[1] /\ new.list.tail = t[n + 1]
      BY <1>1, <2>1, <2>2
    <3>4. \A i \in 1..(n + 1) :
            /\ new.links.next[t[i]] = IF i = n + 1 THEN NONE ELSE t[i + 1]
            /\ new.links.prev[t[i]] = IF i = 1 THEN NONE ELSE t[i - 1]
      <4> SUFFICES ASSUME NEW i \in 1..(n + 1)
                   PROVE  /\ new.links.next[t[i]] = IF i = n + 1 THEN NONE ELSE t[i + 1]
                          /\ new.links.prev[t[i]] = IF i = 1 THEN NONE ELSE t[i - 1]
        OBVIOUS
      <4>1. CASE i = n + 1
        BY <4>1, <1>1, <1>2, <2>1, <2>2 DEF LinksOf
      <4>2. CASE i = n
        BY <4>2, <1>1, <1>2, <2>1, <2>2 DEF LinksOf, IsChain
      <4>3. CASE i < n
        <5>1. s[i] \in M /\ s[i] # s[n] /\ t[i] = s[i] /\ t[i + 1] = s[i + 1]
          BY <4>3, <1>1, <1>2, <2>1 DEF IsChain
        <5>2. i # 1 => t[i - 1] = s[i - 1]
          BY <4>3, <1>1
        <5> QED
          BY <4>3, <5>1, <5>2, <1>1, <1>2, <2>1, <2>2 DEF LinksOf, IsChain
      <4> QED
        BY <4>1, <4>2, <4>3, <1>1
    <3>5. n + 1 # 0
      BY <1>1
    <3> HIDE DEF n, new, t
    <3> QED
      BY <3>1, <3>2, <3>3, <3>4, <3>5 DEF IsChain
  <2>4. SameLinks(was, new.links, Elems \ (M \cup {e})) /\ new.links \in LinksOf(Elems)
    BY <2>1, <2>2 DEF SameLinks, LinksOf
  <2> QED
    BY <1>1, <1>3, <2>3, <2>4 DEF IsList
<1> QED
  BY <1>4, <1>5

\* GetHead drops the first element of a list that is not empty: GetFromFbList,
\* GetFromGcVictimList.
LEMMA GetHeadIsList ==
  ASSUME NEW Elems, NONE \notin Elems, NEW M \in SUBSET Elems, IsFiniteSet(M),
         M # {}, NEW list, NEW was,
         was \in LinksOf(Elems), IsList(list, was, M)
  PROVE  /\ list.head \in M
         /\ IsList(GetHead(list, was).list, GetHead(list, was).links, M \ {list.head})
         /\ SameLinks(was, GetHead(list, was).links, Elems \ (M \ {list.head}))
         /\ GetHead(list, was).links \in LinksOf(Elems)
<1> DEFINE n == Cardinality(M)
           h == list.head
           new == GetHead(list, was)
<1>1. n \in Nat /\ n > 0
  BY FS_CardinalityType, FS_EmptySet
<1>2. PICK s \in [1..n -> M] : IsChain(s, n, list, was, M)
  BY DEF IsList
<1>3. h = s[1] /\ h \in M
  BY <1>1, <1>2 DEF IsChain
<1>4. Cardinality(M \ {h}) = n - 1
  BY <1>3, FS_RemoveElement
<1> DEFINE t == [i \in 1..(n - 1) |-> s[i + 1]]
<1>5. t \in [1..(n - 1) -> M \ {h}]
  BY <1>1, <1>2, <1>3 DEF IsChain
<1>6. \A x \in M \ {h} : \E i \in 1..(n - 1) : t[i] = x
  <2> SUFFICES ASSUME NEW x \in M \ {h} PROVE \E i \in 1..(n - 1) : t[i] = x
    OBVIOUS
  <2>1. PICK i \in 1..n : s[i] = x
    BY <1>2 DEF IsChain
  <2>2. i - 1 \in 1..(n - 1) /\ t[i - 1] = x
    BY <2>1, <1>1, <1>3
  <2> QED
    BY <2>2
<1>7. \A i, j \in 1..(n - 1) : t[i] = t[j] => i = j
  BY <1>1, <1>2 DEF IsChain
<1>8. CASE n = 1
  <2>1. was.next[h] = NONE /\ M \ {h} = {}
    BY <1>1, <1>2, <1>3, <1>8 DEF IsChain
  <2>2. new = [list |-> EmptyList, links |-> was]
    BY <2>1 DEF GetHead
  <2>3. GetHead(list, was).list = EmptyList /\ GetHead(list, was).links = was
    BY <2>2
  <2>4. M \ {list.head} = {}
    BY <2>1
  <2>5. IsList(EmptyList, was, {})
    BY EmptyIsList
  <2> QED
    BY <1>3, <2>3, <2>4, <2>5 DEF SameLinks
<1>9. CASE n > 1
  <2>1. was.next[h] = s[2] /\ s[2] \in M /\ s[2] # h /\ s[2] # NONE
    <3>1. 1 \in 1..n /\ 2 \in 1..n /\ 1 # n /\ 1 + 1 = 2
      BY <1>1, <1>9
    <3>2. /\ \A i, j \in 1..n : s[i] = s[j] => i = j
          /\ \A i \in 1..n : was.next[s[i]] = IF i = n THEN NONE ELSE s[i + 1]
      BY <1>2 DEF IsChain
    <3>3. was.next[s[1]] = s[2] /\ s[2] # s[1]
      BY <3>1, <3>2
    <3>4. s[2] \in M
      BY <1>2, <3>1
    <3> QED
      BY <1>3, <3>3, <3>4
  <2>2. new = [list |-> [head |-> s[2], tail |-> s[n]],
               links |-> [prev |-> [was.prev EXCEPT ![s[2]] = NONE],
                          next |-> was.next]]
    <3>1. list.tail = s[n]
      BY <1>1, <1>2 DEF IsChain
    <3> QED
      BY <2>1, <3>1 DEF GetHead
  <2>3. \A i \in 1..(n - 1) :
          /\ new.links.next[t[i]] = IF i = n - 1 THEN NONE ELSE t[i + 1]
          /\ new.links.prev[t[i]] = IF i = 1 THEN NONE ELSE t[i - 1]
    <3> SUFFICES ASSUME NEW i \in 1..(n - 1)
                 PROVE  /\ new.links.next[t[i]] = IF i = n - 1 THEN NONE ELSE t[i + 1]
                        /\ new.links.prev[t[i]] = IF i = 1 THEN NONE ELSE t[i - 1]
      OBVIOUS
    <3>1. t[i] = s[i + 1] /\ i + 1 \in 1..n /\ t[i] \in Elems
      BY <1>1, <1>5
    <3>2. i # n - 1 => t[i + 1] = s[i + 2]
      BY <1>1
    <3>3. i # 1 => t[i - 1] = s[i] /\ t[i] # s[2]
      BY <1>1, <1>2, <1>9, <3>1 DEF IsChain
    <3>4. was.next[s[i + 1]] = IF i + 1 = n THEN NONE ELSE s[i + 2]
      <4>1. was.next[s[i + 1]] = IF i + 1 = n THEN NONE ELSE s[(i + 1) + 1]
        BY <1>2, <3>1 DEF IsChain
      <4> QED
        BY <4>1, (i + 1) + 1 = i + 2
    <3>5. was.prev[s[i + 1]] = s[i]
      <4>1. was.prev[s[i + 1]] = IF i + 1 = 1 THEN NONE ELSE s[(i + 1) - 1]
        BY <1>2, <3>1 DEF IsChain
      <4> QED
        BY <4>1, (i + 1) - 1 = i, i + 1 # 1
    <3> QED
      BY <1>1, <1>9, <2>1, <2>2, <3>1, <3>2, <3>3, <3>4, <3>5 DEF LinksOf
  <2>4. new.list.head = t[1] /\ new.list.tail = t[n - 1]
    BY <1>1, <1>9, <2>2
  <2>5. IsChain(t, n - 1, new.list, new.links, M \ {h})
    <3>1. n - 1 # 0
      BY <1>1, <1>9
    <3> HIDE DEF n, new, t
    <3> QED
      BY <1>6, <1>7, <2>3, <2>4, <3>1 DEF IsChain
  <2>6. SameLinks(was, new.links, Elems \ (M \ {h})) /\ new.links \in LinksOf(Elems)
    BY <2>1, <2>2 DEF SameLinks, LinksOf
  <2> QED
    BY <1>3, <1>4, <1>5, <2>5, <2>6 DEF IsList
<1> QED
  BY <1>1, <1>8, <1>9

\* Unlink takes one member out of the chain: SelectiveGetFromGcVictimList.
LEMMA UnlinkIsList ==
  ASSUME NEW Elems, NONE \notin Elems, NEW M \in SUBSET Elems, IsFiniteSet(M),
         NEW e \in M, NEW list, NEW was,
         was \in LinksOf(Elems), IsList(list, was, M)
  PROVE  /\ IsList(Unlink(list, was, e).list, Unlink(list, was, e).links, M \ {e})
         /\ SameLinks(was, Unlink(list, was, e).links, Elems \ (M \ {e}))
         /\ Unlink(list, was, e).links \in LinksOf(Elems)
<1> DEFINE n == Cardinality(M)
           new == Unlink(list, was, e)
<1>1. n \in Nat /\ n > 0 /\ Cardinality(M \ {e}) = n - 1
  BY FS_CardinalityType, FS_EmptySet, FS_RemoveElement
<1>2. PICK s \in [1..n -> M] : IsChain(s, n, list, was, M)
  BY DEF IsList
<1>3. PICK k \in 1..n : s[k] = e
  BY <1>2 DEF IsChain
<1>4. \A i \in 1..n : s[i] = e => i = k
  BY <1>2, <1>3 DEF IsChain
<1> DEFINE t == [i \in 1..(n - 1) |-> IF i < k THEN s[i] ELSE s[i + 1]]
<1>5. t \in [1..(n - 1) -> M \ {e}]
  BY <1>1, <1>2, <1>3, <1>4
<1>6. \A x \in M \ {e} : \E i \in 1..(n - 1) : t[i] = x
  <2> SUFFICES ASSUME NEW x \in M \ {e} PROVE \E i \in 1..(n - 1) : t[i] = x
    OBVIOUS
  <2>1. PICK i \in 1..n : s[i] = x
    BY <1>2 DEF IsChain
  <2>2. CASE i < k
    BY <2>1, <2>2, <1>1, <1>3
  <2>3. CASE i > k
    <3>1. i - 1 \in 1..(n - 1) /\ t[i - 1] = x
      BY <2>1, <2>3, <1>1, <1>3
    <3> QED
      BY <3>1
  <2> QED
    BY <2>1, <2>2, <2>3, <1>3
<1>7. \A i, j \in 1..(n - 1) : t[i] = t[j] => i = j
  BY <1>1, <1>2, <1>3 DEF IsChain
<1>8. was.next[e] = (IF k = n THEN NONE ELSE s[k + 1])
      /\ was.prev[e] = (IF k = 1 THEN NONE ELSE s[k - 1])
  BY <1>2, <1>3 DEF IsChain
<1>9. \A i \in 1..n : s[i] # NONE /\ s[i] \in Elems /\ s[i] \in M
  BY <1>2
<1>10. list.head = s[1] /\ list.tail = s[n]
  BY <1>1, <1>2 DEF IsChain
<1>11. CASE n = 1
  <2>1. k = 1 /\ M \ {e} = {}
    BY <1>2, <1>3, <1>11 DEF IsChain
  <2>2. new.list = EmptyList /\ new.links = was
    BY <1>8, <1>11, <2>1 DEF Unlink, LinksOf
  <2> QED
    BY <2>1, <2>2, EmptyIsList DEF SameLinks
<1>12. CASE n > 1
  <2>1. /\ new.list.head = IF k = 1 THEN s[2] ELSE s[1]
        /\ new.list.tail = IF k = n THEN s[n - 1] ELSE s[n]
    BY <1>1, <1>3, <1>8, <1>9, <1>10, <1>12 DEF Unlink
  <2>2. new.links =
          [prev |-> IF k = n THEN was.prev
                    ELSE [was.prev EXCEPT ![s[k + 1]] = IF k = 1 THEN NONE ELSE s[k - 1]],
           next |-> IF k = 1 THEN was.next
                    ELSE [was.next EXCEPT ![s[k - 1]] = IF k = n THEN NONE ELSE s[k + 1]]]
    BY <1>1, <1>3, <1>8, <1>9 DEF Unlink
  <2>3. new.list.head = t[1] /\ new.list.tail = t[n - 1]
    BY <1>1, <1>3, <1>12, <2>1
  <2>4. \A i \in 1..(n - 1) :
          /\ new.links.next[t[i]] = IF i = n - 1 THEN NONE ELSE t[i + 1]
          /\ new.links.prev[t[i]] = IF i = 1 THEN NONE ELSE t[i - 1]
    <3> SUFFICES ASSUME NEW i \in 1..(n - 1)
                 PROVE  /\ new.links.next[t[i]] = IF i = n - 1 THEN NONE ELSE t[i + 1]
                        /\ new.links.prev[t[i]] = IF i = 1 THEN NONE ELSE t[i - 1]
      OBVIOUS
    <3> DEFINE j == IF i < k THEN i ELSE i + 1
    <3>1. j \in 1..n /\ j # k /\ t[i] = s[j]
      BY <1>1, <1>3
    <3>2. /\ was.next[s[j]] = IF j = n THEN NONE ELSE s[j + 1]
          /\ was.prev[s[j]] = IF j = 1 THEN NONE ELSE s[j - 1]
      BY <1>2, <3>1 DEF IsChain
    <3>3. /\ k # n => (s[j] = s[k + 1] <=> j = k + 1)
          /\ k # 1 => (s[j] = s[k - 1] <=> j = k - 1)
      BY <1>1, <1>2, <1>3, <3>1 DEF IsChain
    <3>4. new.links.next[s[j]] =
            IF j = k - 1 THEN IF k = n THEN NONE ELSE s[k + 1]
            ELSE IF j = n THEN NONE ELSE s[j + 1]
      BY <1>1, <1>3, <1>9, <2>2, <3>1, <3>2, <3>3 DEF LinksOf
    <3>5. new.links.prev[s[j]] =
            IF j = k + 1 THEN IF k = 1 THEN NONE ELSE s[k - 1]
            ELSE IF j = 1 THEN NONE ELSE s[j - 1]
      BY <1>1, <1>3, <1>9, <2>2, <3>1, <3>2, <3>3 DEF LinksOf
    <3>6. i # n - 1 => t[i + 1] = IF i + 1 < k THEN s[i + 1] ELSE s[i + 2]
      BY <1>1, (i + 1) + 1 = i + 2
    <3>7. i # 1 => t[i - 1] = IF i - 1 < k THEN s[i - 1] ELSE s[i]
      BY <1>1, (i - 1) + 1 = i
    <3> HIDE DEF new, t, n
    <3>8. CASE i < k
      BY <3>8, <1>1, <1>3, <1>12, <3>1, <3>4, <3>5, <3>6, <3>7
    <3>9. CASE i >= k
      <4>1. j = i + 1 /\ j + 1 = i + 2 /\ j - 1 = i
        BY <3>9, <1>3
      <4>2. t[i] = s[i + 1]
        BY <4>1, <3>1
      <4>3. new.links.next[s[i + 1]] = IF i + 1 = n THEN NONE ELSE s[i + 2]
        BY <4>1, <3>4, <3>9, <1>3
      <4>4. new.links.prev[s[i + 1]] =
              IF i = k THEN IF k = 1 THEN NONE ELSE s[k - 1] ELSE s[i]
        BY <4>1, <3>5, <3>9, <1>3
      <4>5. i # n - 1 => t[i + 1] = s[i + 2]
        BY <3>6, <3>9, <1>3
      <4>6. i # 1 => t[i - 1] = IF i = k THEN s[k - 1] ELSE s[i]
        BY <3>7, <3>9, <1>3
      <4> QED
        BY <4>2, <4>3, <4>4, <4>5, <4>6, <1>1, <1>3, <3>9
    <3> QED
      BY <3>8, <3>9, <1>1, <1>3
  <2>5. IsChain(t, n - 1, new.list, new.links, M \ {e})
    <3>1. n - 1 # 0
      BY <1>1, <1>12
    <3> HIDE DEF n, new, t
    <3> QED
      BY <1>6, <1>7, <2>3, <2>4, <3>1 DEF IsChain
  <2>6. SameLinks(was, new.links, Elems \ (M \ {e}))
    <3>1. /\ k # n => s[k + 1] \in M \ {e}
          /\ k # 1 => s[k - 1] \in M \ {e}
      BY <1>1, <1>3, <1>4, <1>9
    <3> QED
      BY <2>2, <3>1 DEF SameLinks, LinksOf
  <2>7. new.links \in LinksOf(Elems)
    <3>1. /\ k # n => s[k + 1] \in Elems
          /\ k # 1 => s[k - 1] \in Elems
      BY <1>1, <1>3, <1>9
    <3> QED
      BY <2>2, <3>1 DEF LinksOf
  <2> QED
    BY <1>1, <1>5, <2>5, <2>6, <2>7 DEF IsList
<1> QED
  BY <1>1, <1>11, <1>12

-----------------------------------------------------------------------------
\* What the list operations do to the lists of a die.

\* Finite sets and the absence of NONE, for the list lemmas.
LEMMA Finiteness ==
  /\ IsFiniteSet(Block) /\ IsFiniteSet(Page) /\ Cardinality(Page) = P
  /\ \A S \in SUBSET Block : IsFiniteSet(S)
  /\ \A S \in SUBSET Page : IsFiniteSet(S) /\ Cardinality(S) \in Nat
<1>1. B - 1 \in Int /\ P - 1 \in Int /\ P \in Nat /\ P > 0
  BY SizesAssumption
<1>2. IsFiniteSet(Block)
  BY <1>1, FS_Interval DEF Block
<1>3. IsFiniteSet(Page) /\ Cardinality(Page) = P
  BY <1>1, FS_Interval DEF Page
<1> QED
  BY <1>2, <1>3, FS_Subset, FS_CardinalityType

\* The blocks of the lists are blocks, and the lists are disjoint.
LEMMA ListMembers ==
  ASSUME TypeOK, NEW d \in Die
  PROVE  /\ FreeBlocks(d) \in SUBSET Block /\ IsFiniteSet(FreeBlocks(d))
         /\ \A n \in 0..P : /\ VictimBlocks(d, n) \in SUBSET Block
                            /\ IsFiniteSet(VictimBlocks(d, n))
                            /\ VictimBlocks(d, n) \cap FreeBlocks(d) = {}
         /\ \A m, n \in 0..P : m # n => VictimBlocks(d, m) \cap VictimBlocks(d, n) = {}
         /\ NONE \notin Block
         /\ links[d] \in LinksOf(Block)
<1>1. Good[d] \in SUBSET Block
  BY GoodAssumption
<1>2. FreeBlocks(d) \in SUBSET Block /\ \A n \in 0..P : VictimBlocks(d, n) \in SUBSET Block
  BY <1>1 DEF FreeBlocks, VictimBlocks
<1>3. NONE \notin Block /\ links[d] \in LinksOf(Block)
  BY NoneAssumption DEF TypeOK
<1> QED
  BY <1>2, <1>3, Finiteness DEF FreeBlocks, VictimBlocks

\* The lists of one die, with other links, free list and victim lists.
DieLists(d, ls, fl, cnt, vl, F, V) ==
  /\ IsList(fl, ls, F)
  /\ cnt = Cardinality(F)
  /\ vl[0] = EmptyList
  /\ \A n \in 1..P : IsList(vl[n], ls, V[n])
  /\ \A b \in V[0] : ls.next[b] = NONE /\ ls.prev[b] = NONE

Victims(d) == [n \in 0..P |-> VictimBlocks(d, n)]

LEMMA ListsOfDie ==
  BlocksOnTheirLists <=>
    \A d \in Die : DieLists(d, links[d], freeList[d], freeBlockCnt[d], gcVictimList[d],
                            FreeBlocks(d), Victims(d))
<1>1. P \in Nat
  BY SizesAssumption
<1>2. \A d \in Die : \A n \in 0..P : Victims(d)[n] = VictimBlocks(d, n)
  BY DEF Victims
<1> QED
  BY <1>1, <1>2 DEF BlocksOnTheirLists, DieLists

\* Changing only the links of other blocks leaves a die's lists as they are.
LEMMA VictimListsFrame ==
  ASSUME TypeOK, NEW d \in Die, NEW ls, NEW V \in [0..P -> SUBSET Block],
         NEW vl,
         \A n \in 0..P : SameLinks(links[d], ls, V[n]),
         \A n \in 1..P : IsList(vl[n], links[d], V[n])
  PROVE  \A n \in 1..P : IsList(vl[n], ls, V[n])
<1> P \in Nat
  BY SizesAssumption
<1> QED
  BY IsListFrame

\* PutToFbList of a block that is on no list.
LEMMA PutToFbListLists ==
  ASSUME TypeOK, NEW d \in Die, NEW b \in Good[d],
         DieLists(d, links[d], freeList[d], freeBlockCnt[d], gcVictimList[d],
                  FreeBlocks(d), Victims(d)),
         b \notin FreeBlocks(d), \A n \in 1..P : b \notin VictimBlocks(d, n),
         PutToFbList(d, b)
  PROVE  /\ links' \in [Die -> LinksOf(Block)]
         /\ freeList' \in [Die -> ListOf(Block)]
         /\ freeBlockCnt' \in [Die -> Int]
         /\ \A c \in Die \ {d} : /\ links'[c] = links[c] /\ freeList'[c] = freeList[c]
                                 /\ freeBlockCnt'[c] = freeBlockCnt[c]
         /\ DieLists(d, links'[d], freeList'[d], freeBlockCnt'[d], gcVictimList[d],
                     FreeBlocks(d) \cup {b}, [Victims(d) EXCEPT ![0] = @ \ {b}])
<1> DEFINE F == FreeBlocks(d)
           W == [Victims(d) EXCEPT ![0] = @ \ {b}]
<1>1. /\ F \in SUBSET Block /\ IsFiniteSet(F) /\ b \in Block /\ NONE \notin Block
      /\ links[d] \in LinksOf(Block) /\ P \in Nat
  BY ListMembers, GoodAssumption, SizesAssumption
<1>2. IsList(freeList[d], links[d], F)
  BY DEF DieLists
<1> DEFINE new == PutTail(freeList[d], links[d], b)
<1>3. /\ IsList(new.list, new.links, F \cup {b})
      /\ SameLinks(links[d], new.links, Block \ (F \cup {b}))
      /\ new.links \in LinksOf(Block)
  BY <1>1, <1>2, PutTailIsList
<1>4. new.list \in ListOf(Block)
  BY <1>1 DEF PutTail, ListOf, TypeOK
<1>5. /\ links' = [links EXCEPT ![d] = new.links]
      /\ freeList' = [freeList EXCEPT ![d] = new.list]
      /\ freeBlockCnt' = [freeBlockCnt EXCEPT ![d] = @ + 1]
  BY DEF PutToFbList, FreeListPut
<1> HIDE DEF new
<1>6. /\ links' \in [Die -> LinksOf(Block)] /\ links'[d] = new.links
      /\ freeList' \in [Die -> ListOf(Block)] /\ freeList'[d] = new.list
      /\ freeBlockCnt' \in [Die -> Int] /\ freeBlockCnt'[d] = freeBlockCnt[d] + 1
      /\ \A c \in Die \ {d} : /\ links'[c] = links[c] /\ freeList'[c] = freeList[c]
                              /\ freeBlockCnt'[c] = freeBlockCnt[c]
  BY <1>3, <1>4, <1>5 DEF TypeOK
<1>7. /\ \A n \in 1..P : W[n] = VictimBlocks(d, n) /\ W[n] = Victims(d)[n]
      /\ W[0] = VictimBlocks(d, 0) \ {b} /\ W[0] \subseteq Victims(d)[0]
      /\ W \in [0..P -> SUBSET Block]
  BY <1>1, ListMembers DEF Victims
<1> HIDE DEF W
<1>8. \A n \in 0..P : W[n] \subseteq Block \ (F \cup {b})
  BY <1>7, <1>1, ListMembers
<1>9. \A n \in 0..P : SameLinks(links[d], new.links, W[n])
  BY <1>3, <1>8 DEF SameLinks
<1>10. \A n \in 1..P : IsList(gcVictimList[d][n], links[d], W[n])
  BY <1>7, <1>1 DEF DieLists
<1>11. \A n \in 1..P : IsList(gcVictimList[d][n], new.links, W[n])
  BY <1>7, <1>8, <1>9, <1>10, VictimListsFrame
<1>12. \A x \in W[0] : new.links.next[x] = NONE /\ new.links.prev[x] = NONE
  BY <1>7, <1>1, <1>9 DEF DieLists, SameLinks
<1>13. Cardinality(F \cup {b}) = freeBlockCnt[d] + 1
  BY <1>1, FS_AddElement DEF DieLists
<1>14. gcVictimList[d][0] = EmptyList
  BY DEF DieLists
<1>15. DieLists(d, links'[d], freeList'[d], freeBlockCnt'[d], gcVictimList[d], F \cup {b}, W)
  BY <1>3, <1>6, <1>11, <1>12, <1>13, <1>14 DEF DieLists
<1> QED
  BY <1>6, <1>15 DEF W

\* GetFromFbList of a die whose free list has a block.
LEMMA GetFromFbListLists ==
  ASSUME TypeOK, NEW d \in Die,
         DieLists(d, links[d], freeList[d], freeBlockCnt[d], gcVictimList[d],
                  FreeBlocks(d), Victims(d)),
         HasFreeBlockNormal(d) \/ HasFreeBlockGc(d),
         GetFromFbList(d)
  PROVE  /\ freeList[d].head \in FreeBlocks(d)
         /\ links' \in [Die -> LinksOf(Block)]
         /\ freeList' \in [Die -> ListOf(Block)]
         /\ freeBlockCnt' \in [Die -> Int]
         /\ free' = [free EXCEPT ![d][freeList[d].head] = FALSE]
         /\ \A c \in Die \ {d} : /\ links'[c] = links[c] /\ freeList'[c] = freeList[c]
                                 /\ freeBlockCnt'[c] = freeBlockCnt[c]
         /\ DieLists(d, links'[d], freeList'[d], freeBlockCnt'[d], gcVictimList[d],
                     FreeBlocks(d) \ {freeList[d].head},
                     [Victims(d) EXCEPT ![0] = @ \cup {freeList[d].head}])
<1> DEFINE F == FreeBlocks(d)
           b == freeList[d].head
           W == [Victims(d) EXCEPT ![0] = @ \cup {b}]
           got == GetHead(freeList[d], links[d])
           new == ClearLinks(got.links, b)
<1>1. /\ F \in SUBSET Block /\ IsFiniteSet(F) /\ NONE \notin Block
      /\ links[d] \in LinksOf(Block) /\ P \in Nat
  BY ListMembers, SizesAssumption
<1>2. IsList(freeList[d], links[d], F) /\ freeBlockCnt[d] = Cardinality(F)
  BY DEF DieLists
<1>3. F # {}
  <2>1. F = {} => Cardinality(F) = 0 /\ b = NONE
    BY <1>1, <1>2, IsListEnds, FS_EmptySet
  <2> QED
    BY <1>2, <2>1 DEF HasFreeBlockNormal, HasFreeBlockGc, RESERVED_FREE_BLOCK_COUNT
<1>4. /\ b \in F
      /\ IsList(got.list, got.links, F \ {b})
      /\ SameLinks(links[d], got.links, Block \ (F \ {b}))
      /\ got.links \in LinksOf(Block)
  BY <1>1, <1>2, <1>3, GetHeadIsList
<1>5. /\ new \in LinksOf(Block) /\ new.next[b] = NONE /\ new.prev[b] = NONE
      /\ SameLinks(got.links, new, Block \ {b})
  BY <1>1, <1>4 DEF ClearLinks, LinksOf, SameLinks
<1>6. got.list \in ListOf(Block)
  BY <1>1, <1>4 DEF GetHead, ListOf, LinksOf, TypeOK, EmptyList
<1>7. /\ links' = [links EXCEPT ![d] = new]
      /\ freeList' = [freeList EXCEPT ![d] = got.list]
      /\ freeBlockCnt' = [freeBlockCnt EXCEPT ![d] = @ - 1]
      /\ free' = [free EXCEPT ![d][b] = FALSE]
  BY DEF GetFromFbList
<1> HIDE DEF new, got
<1>8. /\ links' \in [Die -> LinksOf(Block)] /\ links'[d] = new
      /\ freeList' \in [Die -> ListOf(Block)] /\ freeList'[d] = got.list
      /\ freeBlockCnt' \in [Die -> Int] /\ freeBlockCnt'[d] = freeBlockCnt[d] - 1
      /\ \A c \in Die \ {d} : /\ links'[c] = links[c] /\ freeList'[c] = freeList[c]
                              /\ freeBlockCnt'[c] = freeBlockCnt[c]
  BY <1>5, <1>6, <1>7 DEF TypeOK
<1>9. IsList(got.list, new, F \ {b})
  <2>1. SameLinks(got.links, new, F \ {b})
    BY <1>1, <1>5 DEF SameLinks
  <2> QED
    BY <1>4, <2>1, IsListFrame
<1>10. /\ \A n \in 1..P : W[n] = VictimBlocks(d, n) /\ W[n] = Victims(d)[n]
       /\ W[0] = VictimBlocks(d, 0) \cup {b} /\ Victims(d)[0] = VictimBlocks(d, 0)
       /\ W \in [0..P -> SUBSET Block]
  BY <1>1, <1>4, ListMembers DEF Victims
<1> HIDE DEF W
<1>11. \A n \in 0..P : SameLinks(links[d], new, VictimBlocks(d, n))
  <2>1. \A n \in 0..P : VictimBlocks(d, n) \subseteq Block \ F
    BY ListMembers
  <2> QED
    BY <1>4, <1>5, <2>1 DEF SameLinks
<1>12. \A n \in 1..P : IsList(gcVictimList[d][n], new, W[n])
  <2>1. \A n \in 1..P : /\ IsList(gcVictimList[d][n], links[d], VictimBlocks(d, n))
                        /\ SameLinks(links[d], new, VictimBlocks(d, n))
    BY <1>1, <1>10, <1>11 DEF DieLists
  <2> QED
    BY <1>10, <2>1, IsListFrame
<1>13. \A x \in W[0] : new.next[x] = NONE /\ new.prev[x] = NONE
  BY <1>1, <1>5, <1>10, <1>11 DEF DieLists, SameLinks
<1>14. Cardinality(F \ {b}) = freeBlockCnt[d] - 1
  <2>1. \A S, x : IsFiniteSet(S) /\ x \in S => Cardinality(S \ {x}) = Cardinality(S) - 1
    BY FS_RemoveElement
  <2> HIDE DEF F, b
  <2>2. Cardinality(F \ {b}) = Cardinality(F) - 1
    BY <1>1, <1>4, <2>1
  <2> QED
    BY <1>2, <2>2
<1>15. DieLists(d, links'[d], freeList'[d], freeBlockCnt'[d], gcVictimList[d], F \ {b}, W)
  BY <1>8, <1>9, <1>12, <1>13, <1>14 DEF DieLists
<1> QED
  BY <1>4, <1>7, <1>8, <1>15 DEF W

\* GetFromGcVictimList takes a block off the list of its count.
LEMMA GetFromGcVictimListLists ==
  ASSUME TypeOK, NEW d \in Die, NEW n \in VictimCounts(d),
         DieLists(d, links[d], freeList[d], freeBlockCnt[d], gcVictimList[d],
                  FreeBlocks(d), Victims(d)),
         GetFromGcVictimList(d, n)
  PROVE  /\ victimBlockNo' \in VictimBlocks(d, n)
         /\ links' \in [Die -> LinksOf(Block)]
         /\ gcVictimList' \in [Die -> [0..P -> ListOf(Block)]]
         /\ \A c \in Die \ {d} : links'[c] = links[c] /\ gcVictimList'[c] = gcVictimList[c]
         /\ DieLists(d, links'[d], freeList[d], freeBlockCnt[d], gcVictimList'[d],
                     FreeBlocks(d), [Victims(d) EXCEPT ![n] = @ \ {victimBlockNo'}])
<1> DEFINE V == VictimBlocks(d, n)
           l == gcVictimList[d][n]
           W == [Victims(d) EXCEPT ![n] = @ \ {l.head}]
           got == GetHead(l, links[d])
<1>1. /\ n \in 1..P /\ l.head # NONE /\ P \in Nat
      /\ V \in SUBSET Block /\ IsFiniteSet(V) /\ NONE \notin Block
      /\ links[d] \in LinksOf(Block) /\ l \in ListOf(Block)
  <2>1. n \in 1..P /\ l.head # NONE /\ P \in Nat /\ n \in 0..P
    BY SizesAssumption DEF VictimCounts
  <2>2. l \in ListOf(Block)
    BY <2>1 DEF TypeOK
  <2> QED
    BY <2>1, <2>2, ListMembers
<1>2. IsList(l, links[d], V)
  <2>1. Victims(d)[n] = V
    BY <1>1 DEF Victims
  <2> QED
    BY <1>1, <2>1 DEF DieLists
<1>3. V # {}
  BY <1>1, <1>2, IsListEnds
<1>4. /\ l.head \in V
      /\ IsList(got.list, got.links, V \ {l.head})
      /\ SameLinks(links[d], got.links, Block \ (V \ {l.head}))
      /\ got.links \in LinksOf(Block)
  BY <1>1, <1>2, <1>3, GetHeadIsList
<1>5. got.list \in ListOf(Block)
  BY <1>1, <1>4 DEF GetHead, ListOf, LinksOf, EmptyList
<1>6. /\ victimBlockNo' = l.head
      /\ gcVictimList' = [gcVictimList EXCEPT ![d][n] = got.list]
      /\ links' = [links EXCEPT ![d] = got.links]
  BY DEF GetFromGcVictimList
<1> HIDE DEF got
<1>7. /\ links' \in [Die -> LinksOf(Block)] /\ links'[d] = got.links
      /\ gcVictimList' \in [Die -> [0..P -> ListOf(Block)]]
      /\ gcVictimList'[d][n] = got.list
      /\ \A m \in 0..P : m # n => gcVictimList'[d][m] = gcVictimList[d][m]
      /\ \A c \in Die \ {d} : links'[c] = links[c] /\ gcVictimList'[c] = gcVictimList[c]
  <2>1. n \in 0..P /\ gcVictimList[d] \in [0..P -> ListOf(Block)]
    BY <1>1 DEF TypeOK
  <2>2. gcVictimList' = [gcVictimList EXCEPT ![d] = [gcVictimList[d] EXCEPT ![n] = got.list]]
    BY <1>6
  <2> QED
    BY <1>4, <1>5, <1>6, <2>1, <2>2 DEF TypeOK
<1>8. /\ \A m \in 0..P : W[m] = IF m = n THEN V \ {l.head} ELSE VictimBlocks(d, m)
      /\ \A m \in 0..P : Victims(d)[m] = VictimBlocks(d, m)
  BY <1>1 DEF Victims
<1> HIDE DEF W
<1>9. /\ \A m \in 0..P : m # n => SameLinks(links[d], got.links, VictimBlocks(d, m))
      /\ SameLinks(links[d], got.links, FreeBlocks(d))
  <2>1. /\ \A m \in 0..P : m # n => VictimBlocks(d, m) \subseteq Block \ V
        /\ FreeBlocks(d) \subseteq Block \ V
    BY <1>1, ListMembers
  <2> QED
    BY <1>4, <2>1 DEF SameLinks
<1>10. \A m \in 1..P : IsList(gcVictimList'[d][m], got.links, W[m])
  <2> SUFFICES ASSUME NEW m \in 1..P
               PROVE  IsList(gcVictimList'[d][m], got.links, W[m])
    OBVIOUS
  <2>1. CASE m = n
    <3>1. W[n] = V \ {l.head} /\ gcVictimList'[d][n] = got.list
      BY <1>1, <1>7, <1>8
    <3> QED
      BY <1>4, <2>1, <3>1
  <2>2. CASE m # n
    <3>1. IsList(gcVictimList[d][m], links[d], VictimBlocks(d, m))
      BY <1>1, <1>8 DEF DieLists
    <3> QED
      BY <1>1, <1>7, <1>8, <1>9, <2>2, <3>1, IsListFrame
  <2> QED
    BY <2>1, <2>2
<1>11. \A x \in W[0] : got.links.next[x] = NONE /\ got.links.prev[x] = NONE
  BY <1>1, <1>8, <1>9 DEF DieLists, SameLinks
<1>12. IsList(freeList[d], got.links, FreeBlocks(d)) /\ gcVictimList'[d][0] = EmptyList
  BY <1>1, <1>7, <1>9, IsListFrame DEF DieLists
<1>13. DieLists(d, links'[d], freeList[d], freeBlockCnt[d], gcVictimList'[d],
                FreeBlocks(d), W)
  BY <1>7, <1>10, <1>11, <1>12 DEF DieLists
<1> QED
  BY <1>4, <1>6, <1>7, <1>13 DEF W

\* InvalidateOldVsa moves a block with n invalid slices to list n + 1, whether
\* it was on list n or, with none invalid, on no list.
LEMMA MoveToNextVictimListLists ==
  ASSUME TypeOK, NEW d \in Die, NEW b \in Block, NEW n \in 0..(P - 1),
         n = invalidSliceCnt[d][b], b \in VictimBlocks(d, n),
         DieLists(d, links[d], freeList[d], freeBlockCnt[d], gcVictimList[d],
                  FreeBlocks(d), Victims(d)),
         MoveToNextVictimList(d, b)
  PROVE  /\ links' \in [Die -> LinksOf(Block)]
         /\ gcVictimList' \in [Die -> [0..P -> ListOf(Block)]]
         /\ \A c \in Die \ {d} : links'[c] = links[c] /\ gcVictimList'[c] = gcVictimList[c]
         /\ DieLists(d, links'[d], freeList[d], freeBlockCnt[d], gcVictimList'[d],
                     FreeBlocks(d),
                     [Victims(d) EXCEPT ![n] = @ \ {b}, ![n + 1] = @ \cup {b}])
<1> DEFINE V == VictimBlocks(d, n)
           V1 == VictimBlocks(d, n + 1)
           l == gcVictimList[d][n]
           l1 == gcVictimList[d][n + 1]
           W == [Victims(d) EXCEPT ![n] = @ \ {b}, ![n + 1] = @ \cup {b}]
           out == Unlink(l, links[d], b)
           in == PutTail(l1, out.links, b)
<1>1. /\ n \in 0..P /\ n + 1 \in 1..P /\ n + 1 \in 0..P /\ P \in Nat /\ n # n + 1
      /\ V \in SUBSET Block /\ IsFiniteSet(V) /\ NONE \notin Block
      /\ V1 \in SUBSET Block /\ IsFiniteSet(V1) /\ V \cap V1 = {}
      /\ links[d] \in LinksOf(Block) /\ l \in ListOf(Block) /\ l1 \in ListOf(Block)
  <2>1. n \in 0..P /\ n + 1 \in 1..P /\ n + 1 \in 0..P /\ P \in Nat /\ n # n + 1
    BY SizesAssumption
  <2>2. l \in ListOf(Block) /\ l1 \in ListOf(Block)
    <3>1. gcVictimList \in [Die -> [0..P -> ListOf(Block)]]
      BY DEF TypeOK
    <3>2. gcVictimList[d] \in [0..P -> ListOf(Block)]
      BY <3>1
    <3> QED
      BY <2>1, <3>2
  <2> QED
    BY <2>1, <2>2, ListMembers
<1>2. \A m \in 0..P : Victims(d)[m] = VictimBlocks(d, m)
  BY DEF Victims
<1>3. /\ IsList(out.list, out.links, IF n = 0 THEN {} ELSE V \ {b})
      /\ SameLinks(links[d], out.links, Block \ (V \ {b}))
      /\ n = 0 => out.links = links[d]
      /\ out.links \in LinksOf(Block)
      /\ out.list \in ListOf(Block)
      /\ n = 0 => out.list = EmptyList
  <2>1. CASE n = 0
    <3>1. links[d].next[b] = NONE /\ links[d].prev[b] = NONE
      BY <1>1, <1>2, <2>1 DEF DieLists
    <3>2. out.list = EmptyList /\ out.links = links[d]
      BY <1>1, <3>1 DEF Unlink, LinksOf
    <3> QED
      BY <1>1, <2>1, <3>2, EmptyIsList DEF SameLinks, ListOf, EmptyList
  <2>2. CASE n # 0
    <3>1. IsList(l, links[d], V)
      BY <1>1, <1>2, <2>2 DEF DieLists
    <3>2. /\ IsList(out.list, out.links, V \ {b})
          /\ SameLinks(links[d], out.links, Block \ (V \ {b}))
          /\ out.links \in LinksOf(Block)
      BY <1>1, <3>1, UnlinkIsList
    <3>3. out.list \in ListOf(Block)
      BY <1>1 DEF Unlink, ListOf, LinksOf, EmptyList
    <3> QED
      BY <2>2, <3>2, <3>3
  <2> QED
    BY <2>1, <2>2
<1>4. IsList(l1, out.links, V1)
  <2>1. IsList(l1, links[d], V1)
    BY <1>1, <1>2 DEF DieLists
  <2>2. SameLinks(links[d], out.links, V1)
    BY <1>1, <1>3 DEF SameLinks
  <2> QED
    BY <2>1, <2>2, IsListFrame
<1>5. /\ links' = [links EXCEPT ![d] = in.links]
      /\ gcVictimList' = [gcVictimList EXCEPT ![d][n] = out.list, ![d][n + 1] = in.list]
  BY DEF MoveToNextVictimList
<1> HIDE DEF out
<1>6. /\ IsList(in.list, in.links, V1 \cup {b})
      /\ SameLinks(out.links, in.links, Block \ (V1 \cup {b}))
      /\ in.links \in LinksOf(Block)
  BY <1>1, <1>3, <1>4, PutTailIsList
<1>7. in.list \in ListOf(Block)
  BY <1>1 DEF PutTail, ListOf
<1> HIDE DEF in
<1>8. /\ links' \in [Die -> LinksOf(Block)] /\ links'[d] = in.links
      /\ gcVictimList' \in [Die -> [0..P -> ListOf(Block)]]
      /\ gcVictimList'[d][n] = out.list /\ gcVictimList'[d][n + 1] = in.list
      /\ \A m \in 0..P : m # n /\ m # n + 1 => gcVictimList'[d][m] = gcVictimList[d][m]
      /\ \A c \in Die \ {d} : links'[c] = links[c] /\ gcVictimList'[c] = gcVictimList[c]
  BY <1>1, <1>3, <1>5, <1>6, <1>7 DEF TypeOK
<1>9. \A m \in 0..P : W[m] = IF m = n THEN V \ {b}
                             ELSE IF m = n + 1 THEN V1 \cup {b} ELSE VictimBlocks(d, m)
  BY <1>1 DEF Victims
<1> HIDE DEF W
<1>10. /\ \A m \in 0..P : m # n /\ m # n + 1 => SameLinks(links[d], in.links, VictimBlocks(d, m))
       /\ SameLinks(links[d], in.links, FreeBlocks(d))
       /\ SameLinks(out.links, in.links, V \ {b})
  <2>1. /\ \A m \in 0..P : m # n /\ m # n + 1 => VictimBlocks(d, m) \subseteq Block \ (V \cup V1)
        /\ FreeBlocks(d) \subseteq Block \ (V \cup V1)
        /\ V \ {b} \subseteq Block \ (V1 \cup {b})
    BY <1>1, ListMembers
  <2> QED
    BY <1>3, <1>6, <2>1 DEF SameLinks
<1>11. n # 0 => IsList(out.list, in.links, V \ {b})
  BY <1>3, <1>10, IsListFrame
<1>12. \A m \in 1..P : IsList(gcVictimList'[d][m], in.links, W[m])
  <2> SUFFICES ASSUME NEW m \in 1..P
               PROVE  IsList(gcVictimList'[d][m], in.links, W[m])
    OBVIOUS
  <2>1. CASE m = n
    BY <1>1, <1>8, <1>9, <1>11, <2>1
  <2>2. CASE m = n + 1
    BY <1>1, <1>6, <1>8, <1>9, <2>2
  <2>3. CASE m # n /\ m # n + 1
    <3>1. IsList(gcVictimList[d][m], links[d], VictimBlocks(d, m))
      BY <1>1, <1>2 DEF DieLists
    <3> QED
      BY <1>1, <1>8, <1>9, <1>10, <2>3, <3>1, IsListFrame
  <2> QED
    BY <2>1, <2>2, <2>3
<1>13. \A x \in W[0] : in.links.next[x] = NONE /\ in.links.prev[x] = NONE
  <2>1. \A x \in VictimBlocks(d, 0) : links[d].next[x] = NONE /\ links[d].prev[x] = NONE
    BY <1>1, <1>2 DEF DieLists
  <2>2. CASE n = 0
    BY <1>1, <1>3, <1>9, <1>10, <2>1, <2>2 DEF SameLinks
  <2>3. CASE n # 0
    BY <1>1, <1>9, <1>10, <2>1, <2>3 DEF SameLinks
  <2> QED
    BY <2>2, <2>3
<1>14. IsList(freeList[d], in.links, FreeBlocks(d)) /\ gcVictimList'[d][0] = EmptyList
  BY <1>1, <1>3, <1>8, <1>10, IsListFrame DEF DieLists
<1>15. DieLists(d, links'[d], freeList[d], freeBlockCnt[d], gcVictimList'[d],
                FreeBlocks(d), W)
  BY <1>8, <1>12, <1>13, <1>14 DEF DieLists
<1> QED
  BY <1>8, <1>15 DEF W

\* A die whose lists and blocks a step leaves alone keeps them.
LEMMA OtherDieLists ==
  ASSUME NEW c \in Die,
         DieLists(c, links[c], freeList[c], freeBlockCnt[c], gcVictimList[c],
                  FreeBlocks(c), Victims(c)),
         links'[c] = links[c], freeList'[c] = freeList[c],
         freeBlockCnt'[c] = freeBlockCnt[c], gcVictimList'[c] = gcVictimList[c],
         free'[c] = free[c], invalidSliceCnt'[c] = invalidSliceCnt[c],
         \A b \in Block : Collecting(c, b)' <=> Collecting(c, b)
  PROVE  DieLists(c, links'[c], freeList'[c], freeBlockCnt'[c], gcVictimList'[c],
                  FreeBlocks(c)', Victims(c)')
<1>1. FreeBlocks(c)' = FreeBlocks(c)
  BY DEF FreeBlocks
<1>2. \A n \in 0..P : VictimBlocks(c, n)' = VictimBlocks(c, n)
  BY DEF VictimBlocks
<1>3. Victims(c)' = Victims(c)
  BY <1>2 DEF Victims
<1> QED
  BY <1>1, <1>3

\* The lists of the dies after a step.
LEMMA ListsOfDieNext ==
  ASSUME \A d \in Die : DieLists(d, links'[d], freeList'[d], freeBlockCnt'[d],
                                gcVictimList'[d], FreeBlocks(d)', Victims(d)')
  PROVE  BlocksOnTheirLists'
<1>1. P \in Nat
  BY SizesAssumption
<1>2. \A d \in Die : \A n \in 0..P : Victims(d)'[n] = VictimBlocks(d, n)'
  BY DEF Victims
<1> QED
  BY <1>1, <1>2 DEF BlocksOnTheirLists, DieLists

-----------------------------------------------------------------------------
\* The actions.

\* Sizes and memberships, from the assumptions on the constants.
LEMMA Sizes ==
  /\ D \in Nat /\ B \in Nat /\ P \in Nat /\ D > 0 /\ B > 0 /\ P > 0
  /\ \A d \in Die : d \in Nat /\ d < D
  /\ \A b \in Block : b \in Nat /\ b < B /\ b # NONE
  /\ \A p \in Page : p \in Nat /\ p < P
  /\ \A v \in VSA : v # NONE /\ v[1] \in Die /\ v[2] \in Block /\ v[3] \in Page
                    /\ v = <<v[1], v[2], v[3]>>
  /\ \A l \in LSA : l # NONE
  /\ \A x \in Data : x # NONE
  /\ \A d \in Die : Good[d] \in SUBSET Block
  /\ NONE \notin LSA /\ NONE \notin VSA /\ NONE \notin Data /\ NONE \notin Block
  /\ 0 \in Die /\ 0 \in Block
<1>1. D \in Nat /\ B \in Nat /\ P \in Nat /\ D > 0 /\ B > 0 /\ P > 0
  BY SizesAssumption
<1>2. NONE \notin LSA /\ NONE \notin VSA /\ NONE \notin Data /\ NONE \notin Block
  BY NoneAssumption
<1>3. \A d \in Die : Good[d] \in SUBSET Block
  BY GoodAssumption
<1>4. \A v \in VSA : v[1] \in Die /\ v[2] \in Block /\ v[3] \in Page
                     /\ v = <<v[1], v[2], v[3]>>
  BY DEF VSA
<1> QED
  BY <1>1, <1>2, <1>3, <1>4 DEF Die, Block, Page

\* At the start every block looks like one in use with nothing in it.
LEMMA InitInv == Init => MappingInv
<1> SUFFICES ASSUME Init PROVE MappingInv
  OBVIOUS
<1> USE DEF Init
<1>1. TypeOK
  <2>1. NoLinks(Block) \in LinksOf(Block) /\ EmptyList \in ListOf(Block)
    BY DEF LinksOf, ListOf, NoLinks, EmptyList
  <2>2. 0 \in 0..P /\ <<0, 0>> \in Die \X Block
    BY Sizes
  <2>3. /\ links \in [Die -> LinksOf(Block)] /\ freeList \in [Die -> ListOf(Block)]
        /\ gcVictimList \in [Die -> [0..P -> ListOf(Block)]]
    BY <2>1
  <2>4. /\ invalidSliceCnt \in [Die -> [Block -> 0..P]] /\ initAt \in Die \X Block
        /\ free \in [Die -> [Block -> BOOLEAN]] /\ currentPage \in [Die -> [Block -> Nat]]
        /\ currentBlock \in [Die -> BlockOrNone] /\ freeBlockCnt \in [Die -> Int]
    BY <2>2 DEF BlockOrNone
  <2>5. request \in [lsa : LSA \cup {NONE}, data : Data \cup {NONE}]
    BY DEF NoRequest
  <2>6. /\ logicalSliceMap \in [LSA -> VSA \cup {NONE}]
        /\ virtualSliceMap \in [VSA -> LSA \cup {NONE}]
        /\ flash \in [VSA -> Data \cup {NONE}]
    OBVIOUS
  <2>7. /\ sliceAllocationTargetDie \in Die /\ victimBlockNo \in BlockOrNone
        /\ pageNo \in 0..P /\ curErased \in BOOLEAN
        /\ pc \in {"initBlockMap", "initCurrentBlock", "idle", "find", "gc", "refind"}
    BY <2>2, Sizes DEF BlockOrNone
  <2> HIDE DEF Init
  <2> QED
    BY <2>3, <2>4, <2>5, <2>6, <2>7 DEF TypeOK
<1>2. BlocksOnTheirLists
  <2> SUFFICES ASSUME NEW d \in Die
               PROVE  DieLists(d, links[d], freeList[d], freeBlockCnt[d], gcVictimList[d],
                               FreeBlocks(d), Victims(d))
    BY ListsOfDie
  <2>1. FreeBlocks(d) = {} /\ \A n \in 1..P : VictimBlocks(d, n) = {}
    BY Sizes DEF FreeBlocks, VictimBlocks
  <2>2. /\ \A n \in 1..P : Victims(d)[n] = {}
        /\ Victims(d)[0] \subseteq Block
    BY <2>1, Sizes DEF Victims, VictimBlocks
  <2>3. /\ links[d] = NoLinks(Block) /\ freeList[d] = EmptyList /\ freeBlockCnt[d] = 0
        /\ \A n \in 0..P : gcVictimList[d][n] = EmptyList
    OBVIOUS
  <2> QED
    <3>1. /\ IsList(EmptyList, links[d], {}) /\ Cardinality({}) = 0
          /\ \A n \in 1..P : n \in 0..P
          /\ 0 \in 0..P
      BY EmptyIsList, FS_EmptySet, Sizes
    <3>2. \A x \in Block : links[d].next[x] = NONE /\ links[d].prev[x] = NONE
      BY <2>3 DEF NoLinks
    <3> HIDE DEF Init
    <3> QED
      BY <2>1, <2>2, <2>3, <3>1, <3>2 DEF DieLists
<1>3. InvalidSlicesCounted
  <2>1. \A d \in Die, b \in Block : InvalidPages(d, b) = {}
    BY Sizes DEF InvalidPages
  <2> QED
    BY <2>1, FS_EmptySet DEF InvalidSlicesCounted
<1>4. LiveDataMapped
  BY DEF LiveDataMapped
<1>5. PagesErased
  BY Sizes DEF PagesErased
<1>6. VictimInProgress /\ WriteInProgress /\ BlocksOpen /\ Booting
  BY Sizes DEF VictimInProgress, WriteInProgress, BlocksOpen, Booting
<1> QED
  BY <1>1, <1>2, <1>3, <1>4, <1>5, <1>6 DEF MappingInv

\* A boot step changes no page, no count and no map.
LEMMA InitBlockMapInv == MappingInv /\ InitBlockMap => MappingInv'
<1> SUFFICES ASSUME MappingInv, InitBlockMap PROVE MappingInv'
  OBVIOUS
<1> PICK d \in Die, b \in Block : initAt = <<d, b>>
  BY DEF MappingInv, TypeOK
<1>1. /\ d \in Die /\ b \in Block /\ TypeOK /\ pc = "initBlockMap" /\ ~free[d][b]
      /\ victimBlockNo = NONE
      /\ \A e \in Die, c \in Block : currentPage[e][c] = 0 /\ invalidSliceCnt[e][c] = 0
      /\ \A l \in LSA : logicalSliceMap[l] = NONE
  <2>1. TypeOK /\ Booting /\ VictimInProgress /\ pc = "initBlockMap"
    BY DEF MappingInv, InitBlockMap
  <2>2. ~free[d][b]
    BY <2>1, Sizes DEF Booting
  <2> QED
    BY <2>1, <2>2 DEF Booting, VictimInProgress
<1>2. /\ free' = [free EXCEPT ![d][b] = TRUE]
      /\ UNCHANGED <<mapVars, gcVictimList, invalidSliceCnt, currentPage, dieVars,
                     request, victimBlockNo, pageNo, curErased>>
      /\ initAt' = IF b < B - 1 THEN <<d, b + 1>>
                   ELSE IF d < D - 1 THEN <<d + 1, 0>> ELSE <<0, 0>>
      /\ pc' = IF b = B - 1 /\ d = D - 1 THEN "initCurrentBlock" ELSE pc
  BY DEF InitBlockMap
<1>3. /\ free' \in [Die -> [Block -> BOOLEAN]]
      /\ free'[d][b]
      /\ \A e \in Die, c \in Block : e # d \/ c # b => free'[e][c] = free[e][c]
  <2>1. free' = [free EXCEPT ![d] = [free[d] EXCEPT ![b] = TRUE]]
    BY <1>2
  <2>2. free \in [Die -> [Block -> BOOLEAN]] /\ free[d] \in [Block -> BOOLEAN]
    BY <1>1 DEF TypeOK
  <2> QED
    BY <1>1, <2>1, <2>2
<1>4. \A e \in Die, c \in Block : ~Collecting(e, c) /\ ~Collecting(e, c)'
  BY <1>1, <1>2, Sizes DEF Collecting
<1>5. /\ \A n \in 0..P : VictimBlocks(d, n)' = IF n = 0 THEN VictimBlocks(d, 0) \ {b}
                                              ELSE VictimBlocks(d, n)
      /\ \A n \in 1..P : VictimBlocks(d, n) = {}
  BY <1>1, <1>2, <1>3, <1>4, Sizes DEF VictimBlocks
<1>6. Victims(d)' = [Victims(d) EXCEPT ![0] = @ \ {b}]
  BY <1>5, Sizes DEF Victims
<1>7. DieLists(d, links[d], freeList[d], freeBlockCnt[d], gcVictimList[d],
               FreeBlocks(d), Victims(d))
  BY <1>1, ListsOfDie DEF MappingInv
<1>8. /\ links' \in [Die -> LinksOf(Block)] /\ freeList' \in [Die -> ListOf(Block)]
      /\ freeBlockCnt' \in [Die -> Int]
      /\ \A c \in Die \ {d} : /\ links'[c] = links[c] /\ freeList'[c] = freeList[c]
                              /\ freeBlockCnt'[c] = freeBlockCnt[c]
      /\ DieLists(d, links'[d], freeList'[d], freeBlockCnt'[d], gcVictimList[d],
                  FreeBlocks(d)', Victims(d)')
  <2>1. CASE b \in Good[d]
    <3>1. PutToFbList(d, b)
      BY <2>1 DEF InitBlockMap
    <3>2. FreeBlocks(d)' = FreeBlocks(d) \cup {b} /\ b \notin FreeBlocks(d)
      BY <1>1, <1>3, <2>1, Sizes DEF FreeBlocks
    <3> QED
      BY <1>1, <1>5, <1>6, <1>7, <2>1, <3>1, <3>2, PutToFbListLists
  <2>2. CASE b \notin Good[d]
    <3>1. UNCHANGED <<freeList, links, freeBlockCnt>>
      BY <2>2 DEF InitBlockMap
    <3>2. FreeBlocks(d)' = FreeBlocks(d)
      BY <1>1, <1>3, <2>2, Sizes DEF FreeBlocks
    <3>3. DieLists(d, links[d], freeList[d], freeBlockCnt[d], gcVictimList[d],
                   FreeBlocks(d), [Victims(d) EXCEPT ![0] = @ \ {b}])
      <4> DEFINE W == [Victims(d) EXCEPT ![0] = @ \ {b}]
      <4>1. \A n \in 1..P : W[n] = Victims(d)[n]
        BY Sizes DEF Victims
      <4>2. W[0] \subseteq Victims(d)[0]
        BY Sizes DEF Victims
      <4> HIDE DEF W
      <4>3. DieLists(d, links[d], freeList[d], freeBlockCnt[d], gcVictimList[d],
                     FreeBlocks(d), W)
        BY <1>7, <4>1, <4>2 DEF DieLists
      <4> QED
        BY <4>3 DEF W
    <3> QED
      BY <1>1, <1>6, <3>1, <3>2, <3>3 DEF TypeOK
  <2> QED
    BY <2>1, <2>2
<1>9. BlocksOnTheirLists'
  <2> SUFFICES ASSUME NEW c \in Die
               PROVE  DieLists(c, links'[c], freeList'[c], freeBlockCnt'[c],
                               gcVictimList'[c], FreeBlocks(c)', Victims(c)')
    BY ListsOfDieNext
  <2>1. CASE c = d
    BY <1>2, <1>8, <2>1
  <2>2. CASE c # d
    <3>1. DieLists(c, links[c], freeList[c], freeBlockCnt[c], gcVictimList[c],
                   FreeBlocks(c), Victims(c))
      BY ListsOfDie DEF MappingInv
    <3>2. free'[c] = free[c]
      BY <1>1, <1>2, <2>2 DEF TypeOK
    <3> QED
      BY <1>2, <1>4, <1>8, <2>2, <3>1, <3>2, OtherDieLists
  <2> QED
    BY <2>1, <2>2
<1>10. initAt' \in Die \X Block /\ pc' \in {"initBlockMap", "initCurrentBlock"}
  BY <1>1, <1>2, Sizes DEF Die, Block
<1>11. TypeOK'
  BY <1>1, <1>2, <1>3, <1>8, <1>10 DEF TypeOK, BlockOrNone, mapVars, dieVars
<1>12. \A e \in Die, c \in Block : InvalidPages(e, c)' = InvalidPages(e, c)
  BY <1>2 DEF InvalidPages, PageValid, mapVars
<1>13. InvalidSlicesCounted'
  BY <1>2, <1>4, <1>12 DEF InvalidSlicesCounted, MappingInv
<1>14. LiveDataMapped' /\ PagesErased'
  BY <1>1, <1>2, <1>3 DEF LiveDataMapped, PagesErased, MappingInv, mapVars
<1>15. VictimInProgress' /\ WriteInProgress'
  BY <1>1, <1>2, <1>10 DEF VictimInProgress, WriteInProgress, MappingInv
<1>16. Booting'
  <2>1. pc' = "initBlockMap" => \A e \in Die, c \in Block : free'[e][c] =>
          e < initAt'[1] \/ (e = initAt'[1] /\ c < initAt'[2])
    <3>1. \A e \in Die, c \in Block : free[e][c] => e < d \/ (e = d /\ c < b)
      BY <1>1 DEF MappingInv, Booting
    <3> SUFFICES ASSUME pc' = "initBlockMap", NEW e \in Die, NEW c \in Block, free'[e][c]
                 PROVE  e < initAt'[1] \/ (e = initAt'[1] /\ c < initAt'[2])
      OBVIOUS
    <3>2. e < d \/ (e = d /\ c <= b)
      BY <1>3, <3>1, Sizes
    <3>3. /\ e \in Nat /\ d \in Nat /\ b \in Nat /\ c \in Nat /\ d < D /\ b < B
          /\ D \in Nat /\ B \in Nat
      BY Sizes
    <3>4. CASE b < B - 1
      BY <1>2, <3>2, <3>3, <3>4
    <3>5. CASE ~(b < B - 1)
      <4>1. d # D - 1
        BY <1>1, <1>2, <3>3, <3>5
      <4> QED
        BY <1>2, <3>2, <3>3, <3>5, <4>1
    <3> QED
      BY <3>4, <3>5
  <2> QED
    BY <1>1, <1>2, <2>1 DEF Booting, mapVars
<1>17. BlocksOpen'
  <2>1. pc' = "initCurrentBlock" => initAt' = <<0, 0>>
    BY <1>1, <1>2, Sizes
  <2> QED
    BY <1>10, <2>1, Sizes DEF BlocksOpen
<1> QED
  BY <1>9, <1>11, <1>13, <1>14, <1>15, <1>16, <1>17 DEF MappingInv

\* A block taken from the free list, while the counts and the victim are left
\* alone: it was good and free, and it becomes one in use with nothing in it.
LEMMA GetFromFbListInv ==
  ASSUME MappingInv, NEW d \in Die, NEW b, b = freeList[d].head,
         HasFreeBlockNormal(d) \/ HasFreeBlockGc(d), GetFromFbList(d),
         UNCHANGED <<gcVictimList, invalidSliceCnt>>,
         \A e \in Die, c \in Block : Collecting(e, c)' <=> Collecting(e, c)
  PROVE  /\ b \in Good[d] /\ free[d][b] /\ ~free'[d][b] /\ ~Collecting(d, b)
         /\ \A e \in Die, c \in Block : e # d \/ c # b => free'[e][c] = free[e][c]
         /\ links' \in [Die -> LinksOf(Block)]
         /\ freeList' \in [Die -> ListOf(Block)]
         /\ freeBlockCnt' \in [Die -> Int]
         /\ free' \in [Die -> [Block -> BOOLEAN]]
         /\ BlocksOnTheirLists'
<1>1. /\ TypeOK /\ PagesErased /\ VictimInProgress
      /\ DieLists(d, links[d], freeList[d], freeBlockCnt[d], gcVictimList[d],
                  FreeBlocks(d), Victims(d))
  BY ListsOfDie DEF MappingInv
<1>2. /\ b \in FreeBlocks(d)
      /\ links' \in [Die -> LinksOf(Block)]
      /\ freeList' \in [Die -> ListOf(Block)]
      /\ freeBlockCnt' \in [Die -> Int]
      /\ free' = [free EXCEPT ![d][b] = FALSE]
      /\ \A c \in Die \ {d} : /\ links'[c] = links[c] /\ freeList'[c] = freeList[c]
                              /\ freeBlockCnt'[c] = freeBlockCnt[c]
      /\ DieLists(d, links'[d], freeList'[d], freeBlockCnt'[d], gcVictimList[d],
                  FreeBlocks(d) \ {b}, [Victims(d) EXCEPT ![0] = @ \cup {b}])
  BY <1>1, GetFromFbListLists
<1>3. b \in Good[d] /\ b \in Block /\ free[d][b]
  BY <1>2, Sizes DEF FreeBlocks
<1>4. ~Collecting(d, b) /\ invalidSliceCnt[d][b] = 0
  BY <1>1, <1>3, Sizes DEF Collecting, VictimInProgress, PagesErased
<1>5. /\ free' \in [Die -> [Block -> BOOLEAN]]
      /\ ~free'[d][b]
      /\ \A e \in Die, c \in Block : e # d \/ c # b => free'[e][c] = free[e][c]
  <2>1. free' = [free EXCEPT ![d] = [free[d] EXCEPT ![b] = FALSE]]
    BY <1>2
  <2>2. free \in [Die -> [Block -> BOOLEAN]] /\ free[d] \in [Block -> BOOLEAN]
    BY <1>1 DEF TypeOK
  <2> QED
    BY <1>3, <2>1, <2>2
<1>6. \A n \in 0..P : VictimBlocks(d, n)' = IF n = 0 THEN VictimBlocks(d, 0) \cup {b}
                                             ELSE VictimBlocks(d, n)
  <2>1. \A c \in Block : c # b => free'[d][c] = free[d][c]
    BY <1>5
  <2> SUFFICES ASSUME NEW n \in 0..P, NEW c \in Block
               PROVE  c \in VictimBlocks(d, n)' <=>
                        c \in VictimBlocks(d, n) \/ (n = 0 /\ c = b)
    BY <1>3, Sizes DEF VictimBlocks
  <2>2. CASE c = b
    BY <1>3, <1>4, <1>5, <2>2 DEF VictimBlocks
  <2>3. CASE c # b
    BY <2>1, <2>3 DEF VictimBlocks
  <2> QED
    BY <2>2, <2>3
<1>7. Victims(d)' = [Victims(d) EXCEPT ![0] = @ \cup {b}]
  BY <1>6, Sizes DEF Victims
<1>8. FreeBlocks(d)' = FreeBlocks(d) \ {b}
  BY <1>3, <1>5, Sizes DEF FreeBlocks
<1>9. BlocksOnTheirLists'
  <2> SUFFICES ASSUME NEW c \in Die
               PROVE  DieLists(c, links'[c], freeList'[c], freeBlockCnt'[c],
                               gcVictimList'[c], FreeBlocks(c)', Victims(c)')
    BY ListsOfDieNext
  <2>1. CASE c = d
    BY <1>2, <1>7, <1>8, <2>1
  <2>2. CASE c # d
    <3>1. DieLists(c, links[c], freeList[c], freeBlockCnt[c], gcVictimList[c],
                   FreeBlocks(c), Victims(c))
      BY ListsOfDie DEF MappingInv
    <3>2. free'[c] = free[c]
      BY <1>1, <1>2, <2>2 DEF TypeOK
    <3> QED
      BY <1>2, <2>2, <3>1, <3>2, OtherDieLists
  <2> QED
    BY <2>1, <2>2
<1> QED
  BY <1>2, <1>3, <1>4, <1>5, <1>9

\* Boot opens a block in every die.
LEMMA InitCurrentBlockOfDieMapInv ==
  MappingInv /\ InitCurrentBlockOfDieMap => MappingInv'
<1> SUFFICES ASSUME MappingInv, InitCurrentBlockOfDieMap PROVE MappingInv'
  OBVIOUS
<1> PICK d \in Die, i \in Block : initAt = <<d, i>>
  BY DEF MappingInv, TypeOK
<1> PICK b : b = freeList[d].head
  OBVIOUS
<1>1. /\ TypeOK /\ pc = "initCurrentBlock" /\ victimBlockNo = NONE
      /\ \A e \in Die, c \in Block : currentPage[e][c] = 0 /\ invalidSliceCnt[e][c] = 0
      /\ \A l \in LSA : logicalSliceMap[l] = NONE
  BY DEF MappingInv, InitCurrentBlockOfDieMap, Booting, VictimInProgress
<1>2. /\ HasFreeBlockNormal(d)
      /\ GetFromFbList(d)
      /\ currentBlock' = [currentBlock EXCEPT ![d] = b]
      /\ initAt' = IF d < D - 1 THEN <<d + 1, 0>> ELSE <<0, 0>>
      /\ pc' = IF d < D - 1 THEN pc ELSE "idle"
      /\ UNCHANGED <<mapVars, gcVictimList, invalidSliceCnt, currentPage,
                     sliceAllocationTargetDie, request, victimBlockNo, pageNo, curErased>>
  BY DEF InitCurrentBlockOfDieMap
<1>3. \A e \in Die, c \in Block : ~Collecting(e, c) /\ ~Collecting(e, c)'
  BY <1>1, <1>2, Sizes DEF Collecting
<1>4. /\ b \in Good[d] /\ free[d][b] /\ ~free'[d][b]
      /\ \A e \in Die, c \in Block : e # d \/ c # b => free'[e][c] = free[e][c]
      /\ links' \in [Die -> LinksOf(Block)]
      /\ freeList' \in [Die -> ListOf(Block)]
      /\ freeBlockCnt' \in [Die -> Int]
      /\ free' \in [Die -> [Block -> BOOLEAN]]
      /\ BlocksOnTheirLists'
  BY <1>2, <1>3, GetFromFbListInv
<1>5. /\ initAt' \in Die \X Block /\ pc' \in {"initCurrentBlock", "idle"}
      /\ pc' = "initCurrentBlock" => d < D - 1 /\ initAt'[1] = d + 1
      /\ pc' = "idle" => d = D - 1
  BY <1>1, <1>2, Sizes DEF Die, Block
<1>6. currentBlock' \in [Die -> BlockOrNone]
  BY <1>1, <1>2, <1>4, Sizes DEF TypeOK, BlockOrNone
<1>7. TypeOK'
  BY <1>1, <1>2, <1>4, <1>5, <1>6 DEF TypeOK, BlockOrNone, mapVars
<1>8. \A e \in Die, c \in Block : InvalidPages(e, c)' = InvalidPages(e, c)
  BY <1>2 DEF InvalidPages, PageValid, mapVars
<1>9. InvalidSlicesCounted'
  BY <1>2, <1>3, <1>8 DEF InvalidSlicesCounted, MappingInv
<1>10. LiveDataMapped'
  BY <1>1, <1>2 DEF LiveDataMapped, mapVars
<1>11. PagesErased'
  BY <1>1, <1>2, <1>4 DEF PagesErased, MappingInv, mapVars
<1>12. VictimInProgress' /\ WriteInProgress'
  BY <1>1, <1>2, <1>5 DEF VictimInProgress, WriteInProgress, MappingInv
<1>13. Booting'
  BY <1>1, <1>2, <1>5 DEF Booting, mapVars
<1>14. BlocksOpen'
  <2> SUFFICES ASSUME NEW e \in Die, pc' = "initCurrentBlock" => e < d + 1
               PROVE  currentBlock'[e] \in Good[e] /\ ~free'[e][currentBlock'[e]]
    BY <1>5 DEF BlocksOpen
  <2>1. CASE e = d
    BY <1>1, <1>2, <1>4, <2>1 DEF TypeOK
  <2>2. CASE e # d
    <3>1. e < d
      BY <1>5, <2>2, Sizes
    <3>2. currentBlock[e] \in Good[e] /\ ~free[e][currentBlock[e]]
      BY <1>1, <3>1 DEF BlocksOpen, MappingInv
    <3>3. currentBlock'[e] = currentBlock[e]
      BY <1>1, <1>2, <2>2 DEF TypeOK
    <3>4. currentBlock[e] \in Block
      BY <3>2, Sizes
    <3> QED
      BY <1>4, <2>2, <3>2, <3>3, <3>4
  <2> QED
    BY <2>1, <2>2
<1> QED
  BY <1>4, <1>7, <1>9, <1>10, <1>11, <1>12, <1>13, <1>14 DEF MappingInv

\* Facts about the invalid pages of a block: there are at most P of them, and
\* fewer when one page is valid.
LEMMA InvalidPagesBound ==
  ASSUME NEW d, NEW b
  PROVE  /\ InvalidPages(d, b) \in SUBSET Page /\ IsFiniteSet(InvalidPages(d, b))
         /\ Cardinality(InvalidPages(d, b)) \in 0..P
         /\ \A p \in Page : PageValid(<<d, b, p>>) =>
              /\ Cardinality(InvalidPages(d, b)) \in 0..(P - 1)
              /\ Cardinality(InvalidPages(d, b) \cup {p}) = Cardinality(InvalidPages(d, b)) + 1
         /\ Cardinality(InvalidPages(d, b)) = P => InvalidPages(d, b) = Page
<1> DEFINE I == InvalidPages(d, b)
<1>1. I \in SUBSET Page /\ IsFiniteSet(I) /\ Cardinality(I) \in Nat
  BY Finiteness DEF InvalidPages
<1>2. IsFiniteSet(Page) /\ Cardinality(Page) = P /\ P \in Nat
  BY Finiteness, Sizes
<1>3. Cardinality(I) <= P
  BY <1>1, <1>2, FS_Subset
<1>4. ASSUME NEW p \in Page, p \notin I
      PROVE  /\ Cardinality(I) \in 0..(P - 1)
             /\ Cardinality(I \cup {p}) = Cardinality(I) + 1
  <2>1. Cardinality(I \cup {p}) = Cardinality(I) + 1
    BY <1>1, <1>4, FS_AddElement
  <2>2. I \cup {p} \in SUBSET Page
    BY <1>1, <1>4
  <2>3. Cardinality(I \cup {p}) <= P
    BY <1>2, <2>2, FS_Subset
  <2> QED
    BY <1>1, <1>2, <2>1, <2>3
<1>5. \A p \in Page : PageValid(<<d, b, p>>) => p \notin I
  BY DEF InvalidPages
\* From here on only the cardinality of I matters.
<1> HIDE DEF I
<1>6. Cardinality(I) = P => I = Page
  <2>1. \A p \in Page : p \notin I => Cardinality(I) <= P - 1
    <3> TAKE p \in Page
    <3> HAVE p \notin I
    <3>1. Cardinality(I) \in 0..(P - 1)
      BY ONLY <1>4, p \notin I, p \in Page
    <3> QED
      BY <1>2, <3>1
  <2>2. Cardinality(I) = P => \A p \in Page : p \in I
    BY <1>2, <2>1
  <2> QED
    BY <1>1, <2>2
<1>7. \A p \in Page : PageValid(<<d, b, p>>) =>
        /\ Cardinality(I) \in 0..(P - 1)
        /\ Cardinality(I \cup {p}) = Cardinality(I) + 1
  BY <1>4, <1>5
<1>8. Cardinality(I) \in 0..P
  BY <1>1, <1>2, <1>3
<1> QED
  BY <1>1, <1>6, <1>7, <1>8 DEF I

\* A mapped slice's page is valid.
LEMMA MappedPageValid ==
  ASSUME TypeOK, LiveDataMapped, NEW l \in LSA, logicalSliceMap[l] # NONE
  PROVE  logicalSliceMap[l] \in VSA /\ PageValid(logicalSliceMap[l])
BY Sizes DEF TypeOK, LiveDataMapped, PageValid

\* InvalidateOldVsa: the old page of the slice, if it has one, is one more
\* invalid page of its block, and the block is on the next list.
LEMMA AddrTransWriteInv ==
  ASSUME MappingInv, NEW l \in LSA, NEW x \in Data, AddrTransWrite(l, x)
  PROVE  MappingInv'
<1>1. /\ TypeOK /\ LiveDataMapped /\ InvalidSlicesCounted /\ PagesErased
      /\ pc = "idle" /\ victimBlockNo = NONE /\ pc' = "find"
      /\ request' = [lsa |-> l, data |-> x]
      /\ UNCHANGED <<virtualSliceMap, flash, freeList, freeBlockCnt, free, currentPage,
                     dieVars, initAt, victimBlockNo, pageNo, curErased>>
  BY DEF MappingInv, AddrTransWrite, VictimInProgress
<1>2. \A e \in Die, c \in Block : ~Collecting(e, c) /\ ~Collecting(e, c)'
  BY <1>1, Sizes DEF Collecting
<1>3. request' \in [lsa : LSA \cup {NONE}, data : Data \cup {NONE}]
  BY <1>1
\* What is left to show once the lists and the counts are settled.
<1>4. ASSUME links' \in [Die -> LinksOf(Block)],
             gcVictimList' \in [Die -> [0..P -> ListOf(Block)]],
             invalidSliceCnt' \in [Die -> [Block -> 0..P]],
             logicalSliceMap' = [logicalSliceMap EXCEPT ![l] = NONE],
             \A e \in Die, c \in Block : free[e][c] => invalidSliceCnt'[e][c] = 0,
             BlocksOnTheirLists', InvalidSlicesCounted'
      PROVE  MappingInv'
  <2>1. /\ logicalSliceMap' \in [LSA -> VSA \cup {NONE}]
        /\ logicalSliceMap'[l] = NONE
        /\ \A k \in LSA : k # l => logicalSliceMap'[k] = logicalSliceMap[k]
    BY <1>1, <1>4 DEF TypeOK
  <2>2. TypeOK'
    BY <1>1, <1>3, <1>4, <2>1 DEF TypeOK, BlockOrNone, dieVars
  <2>3. LiveDataMapped'
    BY <1>1, <2>1 DEF LiveDataMapped
  <2>4. PagesErased'
    BY <1>1, <1>4 DEF PagesErased
  <2>5. VictimInProgress' /\ WriteInProgress'
    BY <1>1, <2>1 DEF VictimInProgress, WriteInProgress
  <2>6. BlocksOpen' /\ Booting'
    BY <1>1 DEF MappingInv, BlocksOpen, Booting, dieVars
  <2> QED
    BY <1>4, <2>2, <2>3, <2>4, <2>5, <2>6 DEF MappingInv
<1>5. CASE logicalSliceMap[l] = NONE
  <2>1. UNCHANGED <<gcVictimList, links, invalidSliceCnt, logicalSliceMap>>
    BY <1>5 DEF AddrTransWrite, InvalidateOldVsa
  <2>2. logicalSliceMap' = [logicalSliceMap EXCEPT ![l] = NONE]
    BY <1>1, <1>5, <2>1 DEF TypeOK
  <2>3. BlocksOnTheirLists'
    <3>1. \A e \in Die : DieLists(e, links'[e], freeList'[e], freeBlockCnt'[e],
                                  gcVictimList'[e], FreeBlocks(e)', Victims(e)')
      <4> TAKE e \in Die
      <4>1. DieLists(e, links[e], freeList[e], freeBlockCnt[e], gcVictimList[e],
                     FreeBlocks(e), Victims(e))
        BY ListsOfDie DEF MappingInv
      <4> QED
        BY <1>1, <1>2, <2>1, <4>1, OtherDieLists
    <3> QED
      BY <3>1, ListsOfDieNext
  <2>4. InvalidSlicesCounted'
    <3>1. \A e \in Die, c \in Block : InvalidPages(e, c)' = InvalidPages(e, c)
      BY <1>1, <2>1 DEF InvalidPages, PageValid
    <3> QED
      BY <1>1, <1>2, <2>1, <3>1 DEF InvalidSlicesCounted
  <2> QED
    BY <1>1, <1>4, <2>1, <2>2, <2>3, <2>4 DEF TypeOK, PagesErased
<1>6. CASE logicalSliceMap[l] # NONE
  <2> PICK d \in Die, b \in Block, p \in Page : logicalSliceMap[l] = <<d, b, p>>
    BY <1>1, <1>6 DEF TypeOK, VSA
  <2> DEFINE vsa == <<d, b, p>>
  <2> PICK n : n = invalidSliceCnt[d][b]
    OBVIOUS
  <2>1. /\ vsa \in VSA /\ PageValid(vsa) /\ virtualSliceMap[vsa] = l
        /\ b \in Good[d] /\ ~free[d][b] /\ p < currentPage[d][b]
    <3>1. virtualSliceMap[vsa] = l /\ b \in Good[d] /\ ~free[d][b] /\ p < currentPage[d][b]
      BY <1>1, <1>6 DEF LiveDataMapped
    <3> QED
      BY <1>1, <1>6, <3>1, MappedPageValid
  <2>2. MoveToNextVictimList(d, b) /\ logicalSliceMap' = [logicalSliceMap EXCEPT ![l] = NONE]
    BY <1>6, <2>1 DEF AddrTransWrite, InvalidateOldVsa, Vsa2Vdie, Vsa2Vblock
  <2>3. n = Cardinality(InvalidPages(d, b)) /\ n \in 0..(P - 1)
    <3>1. n = Cardinality(InvalidPages(d, b))
      BY <1>1, <1>2 DEF InvalidSlicesCounted
    <3>2. Cardinality(InvalidPages(d, b)) \in 0..(P - 1)
      BY <2>1, InvalidPagesBound
    <3> QED
      BY <3>1, <3>2
  <2>4. b \in VictimBlocks(d, n)
    BY <1>2, <2>1 DEF VictimBlocks
  <2>5. DieLists(d, links[d], freeList[d], freeBlockCnt[d], gcVictimList[d],
                 FreeBlocks(d), Victims(d))
    BY <1>1, ListsOfDie DEF MappingInv
  <2>6. /\ links' \in [Die -> LinksOf(Block)]
        /\ gcVictimList' \in [Die -> [0..P -> ListOf(Block)]]
        /\ \A c \in Die \ {d} : links'[c] = links[c] /\ gcVictimList'[c] = gcVictimList[c]
        /\ DieLists(d, links'[d], freeList[d], freeBlockCnt[d], gcVictimList'[d],
                    FreeBlocks(d), [Victims(d) EXCEPT ![n] = @ \ {b}, ![n + 1] = @ \cup {b}])
    BY <1>1, <2>2, <2>3, <2>4, <2>5, MoveToNextVictimListLists
  <2>7. /\ invalidSliceCnt' \in [Die -> [Block -> 0..P]]
        /\ invalidSliceCnt'[d][b] = n + 1
        /\ \A e \in Die, c \in Block : e # d \/ c # b =>
             invalidSliceCnt'[e][c] = invalidSliceCnt[e][c]
        /\ \A e \in Die : e # d => invalidSliceCnt'[e] = invalidSliceCnt[e]
    <3>1. invalidSliceCnt' = [invalidSliceCnt EXCEPT ![d] =
                                [invalidSliceCnt[d] EXCEPT ![b] = n + 1]]
      BY <2>2 DEF MoveToNextVictimList
    <3>2. /\ invalidSliceCnt \in [Die -> [Block -> 0..P]]
          /\ invalidSliceCnt[d] \in [Block -> 0..P] /\ n + 1 \in 0..P
      <4>1. n + 1 \in 0..P
        BY <2>3, Sizes
      <4> QED
        BY <1>1, <4>1 DEF TypeOK
    <3>3. b \in Block
      OBVIOUS
    <3> QED
      BY <3>1, <3>2, <3>3
  <2>8. \A m \in 0..P : VictimBlocks(d, m)' =
          IF m = n THEN VictimBlocks(d, n) \ {b}
          ELSE IF m = n + 1 THEN VictimBlocks(d, n + 1) \cup {b} ELSE VictimBlocks(d, m)
    <3> SUFFICES ASSUME NEW m \in 0..P, NEW c \in Block
                 PROVE  c \in VictimBlocks(d, m)' <=>
                          \/ m = n /\ c \in VictimBlocks(d, n) \ {b}
                          \/ m = n + 1 /\ c \in VictimBlocks(d, n + 1) \cup {b}
                          \/ m # n /\ m # n + 1 /\ c \in VictimBlocks(d, m)
      BY <2>3, Sizes DEF VictimBlocks
    <3>1. CASE c = b
      BY <1>1, <1>2, <2>1, <2>3, <2>7, <3>1 DEF VictimBlocks
    <3>2. CASE c # b
      BY <1>1, <1>2, <2>3, <2>7, <3>2 DEF VictimBlocks
    <3> QED
      BY <3>1, <3>2
  <2>9. Victims(d)' = [Victims(d) EXCEPT ![n] = @ \ {b}, ![n + 1] = @ \cup {b}]
    <3>1. n \in 0..P /\ n + 1 \in 0..P /\ n # n + 1
      BY <2>3, Sizes
    <3>2. /\ Victims(d) = [m \in 0..P |-> VictimBlocks(d, m)]
          /\ Victims(d)' = [m \in 0..P |-> VictimBlocks(d, m)']
      BY DEF Victims
    <3>3. \A m \in 0..P : [Victims(d) EXCEPT ![n] = @ \ {b}, ![n + 1] = @ \cup {b}][m]
                          = VictimBlocks(d, m)'
      BY <2>8, <3>1, <3>2
    <3> QED
      BY <3>2, <3>3
  <2>10. \A e \in Die : FreeBlocks(e)' = FreeBlocks(e)
    BY <1>1 DEF FreeBlocks
  <2>11. BlocksOnTheirLists'
    <3> SUFFICES ASSUME NEW c \in Die
                 PROVE  DieLists(c, links'[c], freeList'[c], freeBlockCnt'[c],
                                 gcVictimList'[c], FreeBlocks(c)', Victims(c)')
      BY ListsOfDieNext
    <3>1. CASE c = d
      BY <1>1, <2>6, <2>9, <2>10, <3>1
    <3>2. CASE c # d
      <4>1. DieLists(c, links[c], freeList[c], freeBlockCnt[c], gcVictimList[c],
                     FreeBlocks(c), Victims(c))
        BY ListsOfDie DEF MappingInv
      <4> QED
        BY <1>1, <1>2, <2>6, <2>7, <3>2, <4>1, OtherDieLists
    <3> QED
      BY <3>1, <3>2
  <2>12. \A v \in VSA : PageValid(v)' <=> PageValid(v) /\ v # vsa
    <3> SUFFICES ASSUME NEW v \in VSA
                 PROVE  PageValid(v)' <=> PageValid(v) /\ v # vsa
      OBVIOUS
    <3>1. \A k \in LSA : logicalSliceMap'[k] = IF k = l THEN NONE ELSE logicalSliceMap[k]
      BY <1>1, <2>2 DEF TypeOK
    <3>2. virtualSliceMap'[v] = virtualSliceMap[v] /\ virtualSliceMap[v] \in LSA \cup {NONE}
      BY <1>1 DEF TypeOK
    <3> QED
      BY <2>1, <3>1, <3>2, Sizes DEF PageValid
  <2>13. /\ \A e \in Die, c \in Block : e # d \/ c # b =>
              InvalidPages(e, c)' = InvalidPages(e, c)
         /\ InvalidPages(d, b)' = InvalidPages(d, b) \cup {p}
    <3>1. \A e \in Die, c \in Block, q \in Page :
            PageValid(<<e, c, q>>)' <=> PageValid(<<e, c, q>>) /\ <<e, c, q>> # vsa
      BY <2>12 DEF VSA
    <3>2. \A e \in Die, c \in Block : e # d \/ c # b =>
            InvalidPages(e, c)' = InvalidPages(e, c)
      BY <1>1, <3>1 DEF InvalidPages
    <3>3. InvalidPages(d, b)' = InvalidPages(d, b) \cup {p}
      BY <1>1, <2>1, <3>1 DEF InvalidPages
    <3> QED
      BY <3>2, <3>3
  <2>14. InvalidSlicesCounted'
    <3>1. Cardinality(InvalidPages(d, b) \cup {p}) = n + 1
      BY <2>1, <2>3, InvalidPagesBound
    <3> SUFFICES ASSUME NEW e \in Die, NEW c \in Block
                 PROVE  invalidSliceCnt'[e][c] = Cardinality(InvalidPages(e, c)')
      BY DEF InvalidSlicesCounted
    <3> QED
      BY <1>1, <1>2, <2>7, <2>13, <3>1 DEF InvalidSlicesCounted
  <2>15. \A e \in Die, c \in Block : free[e][c] => invalidSliceCnt'[e][c] = 0
    BY <1>1, <2>1, <2>7 DEF PagesErased
  <2> QED
    BY <1>4, <2>2, <2>6, <2>7, <2>11, <2>14, <2>15
<1> QED
  BY <1>5, <1>6

\* Program: the next page of block b becomes the slice's page.  It served no
\* slice before; the page the slice had, if any, is valid no more.
LEMMA ProgramPages ==
  ASSUME TypeOK, LiveDataMapped, PagesErased,
         NEW d \in Die, NEW b \in Good[d], NEW l \in LSA, NEW x \in Data \cup {NONE},
         currentPage[d][b] < P,
         \A e \in Die, c \in Block : free'[e][c] => free[e][c],
         ~free'[d][b], Program(d, b, l, x)
  PROVE  /\ logicalSliceMap' \in [LSA -> VSA \cup {NONE}]
         /\ virtualSliceMap' \in [VSA -> LSA \cup {NONE}]
         /\ flash' \in [VSA -> Data \cup {NONE}]
         /\ currentPage' \in [Die -> [Block -> Nat]]
         /\ LiveDataMapped'
         /\ \A e \in Die, c \in Block : currentPage'[e][c] <= P
         /\ \A e \in Die, c \in Block : e # d \/ c # b =>
              currentPage'[e][c] = currentPage[e][c]
         /\ \A v \in VSA : v[3] >= currentPage'[v[1]][v[2]] => virtualSliceMap'[v] = NONE
         /\ \A k \in LSA : k # l => logicalSliceMap'[k] = logicalSliceMap[k]
         /\ \A e \in Die, c \in Block, p \in Page :
              PageValid(<<e, c, p>>)' <=>
                \/ <<e, c, p>> = <<d, b, currentPage[d][b]>>
                \/ PageValid(<<e, c, p>>) /\ <<e, c, p>> # logicalSliceMap[l]
         /\ \A e \in Die, c \in Block :
              (\A p \in Page : logicalSliceMap[l] # <<e, c, p>>) =>
                InvalidPages(e, c)' = InvalidPages(e, c)
<1> PICK p \in Page : p = currentPage[d][b]
  <2>1. b \in Block /\ P \in Nat
    BY Sizes
  <2>2. currentPage[d][b] \in Nat
    BY <2>1 DEF TypeOK
  <2>3. currentPage[d][b] \in Page
    BY <2>1, <2>2 DEF Page
  <2> QED
    BY <2>3
<1> DEFINE vsa == <<d, b, p>>
<1>1. /\ b \in Block /\ vsa \in VSA /\ p \in Nat /\ p < P
      /\ currentPage' = [currentPage EXCEPT ![d] = [currentPage[d] EXCEPT ![b] = p + 1]]
      /\ logicalSliceMap' = [logicalSliceMap EXCEPT ![l] = vsa]
      /\ virtualSliceMap' = [virtualSliceMap EXCEPT ![vsa] = l]
      /\ flash' = [flash EXCEPT ![vsa] = x]
  <2>1. b \in Block /\ p \in Nat /\ p < P /\ vsa \in VSA
    BY Sizes DEF VSA
  <2>2. Vorg2Vsa(d, b, currentPage[d][b]) = vsa
    BY <2>1 DEF Vorg2Vsa
  <2>3. currentPage' = [currentPage EXCEPT ![d] = [currentPage[d] EXCEPT ![b] = p + 1]]
    BY DEF Program
  <2> HIDE DEF vsa
  <2>4. /\ logicalSliceMap' = [logicalSliceMap EXCEPT ![l] = vsa]
        /\ virtualSliceMap' = [virtualSliceMap EXCEPT ![vsa] = l]
        /\ flash' = [flash EXCEPT ![vsa] = x]
    BY <2>2 DEF Program
  <2> QED
    BY <2>1, <2>3, <2>4
<1>2. /\ logicalSliceMap' \in [LSA -> VSA \cup {NONE}]
      /\ virtualSliceMap' \in [VSA -> LSA \cup {NONE}]
      /\ flash' \in [VSA -> Data \cup {NONE}]
  BY <1>1 DEF TypeOK
<1>3. /\ currentPage' \in [Die -> [Block -> Nat]]
      /\ currentPage'[d][b] = p + 1
      /\ \A e \in Die, c \in Block : e # d \/ c # b => currentPage'[e][c] = currentPage[e][c]
  <2>1. /\ currentPage \in [Die -> [Block -> Nat]]
        /\ currentPage[d] \in [Block -> Nat] /\ p + 1 \in Nat
    <3>1. p + 1 \in Nat
      BY <1>1
    <3> QED
      BY <3>1 DEF TypeOK
  <2>2. currentPage' = [currentPage EXCEPT ![d] = [currentPage[d] EXCEPT ![b] = p + 1]]
    BY <1>1
  <2>3. d \in Die /\ b \in Block
    BY <1>1
  <2> QED
    BY <2>1, <2>2, <2>3
<1>4. /\ logicalSliceMap'[l] = vsa
      /\ \A k \in LSA : k # l => logicalSliceMap'[k] = logicalSliceMap[k]
      /\ virtualSliceMap'[vsa] = l
      /\ \A v \in VSA : v # vsa => virtualSliceMap'[v] = virtualSliceMap[v]
  BY <1>1 DEF TypeOK
<1>5. virtualSliceMap[vsa] = NONE /\ \A k \in LSA : logicalSliceMap[k] # vsa
  <2>1. virtualSliceMap[vsa] = NONE
    BY <1>1 DEF PagesErased
  <2> QED
    BY <1>1, <2>1, Sizes DEF LiveDataMapped
<1> HIDE DEF vsa
<1>6. LiveDataMapped'
  <2> SUFFICES ASSUME NEW k \in LSA, logicalSliceMap'[k] # NONE,
                      NEW v, v = logicalSliceMap'[k]
               PROVE  /\ virtualSliceMap'[v] = k
                      /\ v[3] < currentPage'[v[1]][v[2]]
                      /\ v[2] \in Good[v[1]]
                      /\ ~free'[v[1]][v[2]]
    BY DEF LiveDataMapped
  <2>1. CASE k = l
    BY <1>1, <1>3, <1>4, <2>1 DEF vsa
  <2>2. CASE k # l
    <3>1. v = logicalSliceMap[k] /\ v # NONE /\ v # vsa /\ v \in VSA
      BY <1>4, <1>5, <2>2 DEF TypeOK
    <3>2. /\ virtualSliceMap[v] = k
          /\ v[3] < currentPage[v[1]][v[2]]
          /\ v[2] \in Good[v[1]]
          /\ ~free[v[1]][v[2]]
      BY <3>1 DEF LiveDataMapped
    <3>3. v[1] \in Die /\ v[2] \in Block /\ v[3] \in Nat
      BY <3>1, Sizes
    <3>4. v[3] < currentPage'[v[1]][v[2]]
      BY <1>1, <1>3, <3>2, <3>3
    <3> QED
      BY <1>4, <3>1, <3>2, <3>3, <3>4
  <2> QED
    BY <2>1, <2>2
<1>7. \A e \in Die, c \in Block : currentPage'[e][c] <= P
  BY <1>1, <1>3, Sizes DEF PagesErased
<1>8. \A v \in VSA : v[3] >= currentPage'[v[1]][v[2]] => virtualSliceMap'[v] = NONE
  <2> SUFFICES ASSUME NEW v \in VSA, v[3] >= currentPage'[v[1]][v[2]]
               PROVE  virtualSliceMap'[v] = NONE
    OBVIOUS
  <2>1. v[1] \in Die /\ v[2] \in Block /\ v[3] \in Nat
    BY Sizes
  <2>2. v # vsa /\ v[3] >= currentPage[v[1]][v[2]]
    <3>1. currentPage[d][b] = p /\ currentPage'[d][b] = p + 1
      BY <1>3
    <3>2. CASE v[1] = d /\ v[2] = b
      BY <1>1, <2>1, <3>1, <3>2 DEF vsa
    <3>3. CASE v[1] # d \/ v[2] # b
      BY <1>3, <2>1, <3>3 DEF vsa
    <3> QED
      BY <3>2, <3>3
  <2> QED
    BY <1>4, <2>2 DEF PagesErased
<1>9. ASSUME NEW v \in VSA
      PROVE  PageValid(v)' <=> v = vsa \/ (PageValid(v) /\ v # logicalSliceMap[l])
  <2>1. CASE v = vsa
    BY <1>4, <2>1, Sizes DEF PageValid
  <2>2. CASE v # vsa
    <3>1. virtualSliceMap'[v] = virtualSliceMap[v] /\ virtualSliceMap[v] \in LSA \cup {NONE}
      BY <1>4, <2>2 DEF TypeOK
    <3>2. CASE virtualSliceMap[v] = l
      BY <1>4, <2>2, <3>1, <3>2, Sizes DEF PageValid
    <3>3. CASE virtualSliceMap[v] # l
      <4>1. v = logicalSliceMap[l] => virtualSliceMap[v] = l
        BY Sizes DEF LiveDataMapped
      <4> QED
        BY <1>4, <2>2, <3>1, <3>3, <4>1, Sizes DEF PageValid
    <3> QED
      BY <3>2, <3>3
  <2> QED
    BY <2>1, <2>2
<1>10. \A e \in Die, c \in Block, q \in Page :
         PageValid(<<e, c, q>>)' <=>
           \/ <<e, c, q>> = <<d, b, currentPage[d][b]>>
           \/ PageValid(<<e, c, q>>) /\ <<e, c, q>> # logicalSliceMap[l]
  BY <1>9 DEF VSA, vsa
<1>11. ASSUME NEW e \in Die, NEW c \in Block, \A q \in Page : logicalSliceMap[l] # <<e, c, q>>
       PROVE  InvalidPages(e, c)' = InvalidPages(e, c)
  <2>1. \A q \in Page : q < currentPage'[e][c] /\ ~PageValid(<<e, c, q>>)'
                        <=> q < currentPage[e][c] /\ ~PageValid(<<e, c, q>>)
    <3> TAKE q \in Page
    <3>1. q \in Nat /\ currentPage[e][c] \in Nat
      BY Sizes DEF TypeOK
    <3>2. CASE e = d /\ c = b
      <4>1. currentPage[e][c] = p /\ currentPage'[e][c] = p + 1 /\ p \in Nat
        BY <1>1, <1>3, <3>2
      <4>2. PageValid(<<e, c, q>>)' <=> q = p \/ PageValid(<<e, c, q>>)
        BY <1>10, <1>11, <3>2
      <4>3. ~PageValid(<<d, b, p>>)
        BY <1>5 DEF PageValid, vsa
      <4> QED
        BY <3>1, <3>2, <4>1, <4>2, <4>3
    <3>3. CASE e # d \/ c # b
      BY <1>3, <1>10, <1>11, <3>1, <3>3
    <3> QED
      BY <3>2, <3>3
  <2> QED
    BY <2>1 DEF InvalidPages
<1> QED
  BY <1>2, <1>3, <1>4, <1>6, <1>7, <1>8, <1>10, <1>11

\* FindFreeVirtualSlice has settled on an open block with room: the slice gets
\* its next page.  What is left of the invariant is assumed here, for the two
\* actions show it in their own way.
LEMMA FinishWriteInv ==
  ASSUME MappingInv, pc \in {"find", "refind"},
         NEW d \in Die, NEW b \in Good[d], currentPage[d][b] < P,
         ~free'[d][b], FinishWrite(d, b),
         \A e \in Die, c \in Block : free'[e][c] => free[e][c],
         links' \in [Die -> LinksOf(Block)], freeList' \in [Die -> ListOf(Block)],
         freeBlockCnt' \in [Die -> Int], free' \in [Die -> [Block -> BOOLEAN]],
         currentBlock' \in [Die -> BlockOrNone],
         BlocksOnTheirLists', BlocksOpen'
  PROVE  MappingInv'
<1> PICK l \in LSA, x \in Data : l = request.lsa /\ x = request.data
  BY DEF MappingInv, WriteInProgress
<1>1. /\ TypeOK /\ LiveDataMapped /\ PagesErased /\ InvalidSlicesCounted
      /\ victimBlockNo = NONE /\ logicalSliceMap[l] = NONE
      /\ Program(d, b, l, x) /\ pc' = "idle" /\ request' = NoRequest
      /\ sliceAllocationTargetDie' = NextTargetDie
      /\ UNCHANGED <<gcVictimList, invalidSliceCnt, initAt, victimBlockNo, pageNo, curErased>>
  BY DEF MappingInv, VictimInProgress, WriteInProgress, FinishWrite
<1>2. /\ logicalSliceMap' \in [LSA -> VSA \cup {NONE}]
      /\ virtualSliceMap' \in [VSA -> LSA \cup {NONE}]
      /\ flash' \in [VSA -> Data \cup {NONE}]
      /\ currentPage' \in [Die -> [Block -> Nat]]
      /\ LiveDataMapped'
      /\ \A e \in Die, c \in Block : currentPage'[e][c] <= P
      /\ \A e \in Die, c \in Block : e # d \/ c # b => currentPage'[e][c] = currentPage[e][c]
      /\ \A v \in VSA : v[3] >= currentPage'[v[1]][v[2]] => virtualSliceMap'[v] = NONE
      /\ \A e \in Die, c \in Block :
           (\A p \in Page : logicalSliceMap[l] # <<e, c, p>>) =>
             InvalidPages(e, c)' = InvalidPages(e, c)
  BY <1>1, ProgramPages
<1>3. \A e \in Die, c \in Block : InvalidPages(e, c)' = InvalidPages(e, c)
  BY <1>1, <1>2, Sizes DEF VSA
<1>4. \A e \in Die, c \in Block : ~Collecting(e, c) /\ ~Collecting(e, c)'
  BY <1>1, Sizes DEF Collecting
<1>5. InvalidSlicesCounted'
  BY <1>1, <1>3, <1>4 DEF InvalidSlicesCounted
<1>6. PagesErased'
  <2>1. \A e \in Die, c \in Block :
          /\ free'[e][c] => currentPage'[e][c] = 0 /\ invalidSliceCnt'[e][c] = 0
          /\ c \notin Good[e] => currentPage'[e][c] = 0
    <3> TAKE e \in Die, c \in Block
    <3>1. CASE e = d /\ c = b
      BY <3>1
    <3>2. CASE e # d \/ c # b
      <4>1. /\ currentPage'[e][c] = currentPage[e][c]
            /\ invalidSliceCnt'[e][c] = invalidSliceCnt[e][c]
        BY <1>1, <1>2, <3>2
      <4>2. /\ free[e][c] => currentPage[e][c] = 0 /\ invalidSliceCnt[e][c] = 0
            /\ c \notin Good[e] => currentPage[e][c] = 0
        BY <1>1 DEF PagesErased
      <4> QED
        BY <4>1, <4>2
    <3> QED
      BY <3>1, <3>2
  <2> QED
    BY <1>2, <2>1 DEF PagesErased
<1>7. sliceAllocationTargetDie' \in Die
  <2>1. \A t \in Nat : (t + 1) % D \in 0..(D - 1)
    BY Sizes
  <2>2. sliceAllocationTargetDie \in Nat
    BY <1>1, Sizes DEF TypeOK
  <2> QED
    BY <1>1, <2>1, <2>2 DEF NextTargetDie, Die
<1>8. request' \in [lsa : LSA \cup {NONE}, data : Data \cup {NONE}]
  BY <1>1 DEF NoRequest
<1>9. TypeOK'
  BY <1>1, <1>2, <1>7, <1>8 DEF TypeOK, BlockOrNone
<1>10. VictimInProgress' /\ WriteInProgress' /\ Booting'
  BY <1>1 DEF VictimInProgress, WriteInProgress, Booting
<1> QED
  BY <1>2, <1>5, <1>6, <1>9, <1>10 DEF MappingInv

\* The open block of a die, once boot is over.
LEMMA OpenBlock ==
  ASSUME MappingInv, pc \notin {"initBlockMap", "initCurrentBlock"}
  PROVE  /\ Target \in Die
         /\ \A d \in Die : /\ currentBlock[d] \in Good[d] /\ currentBlock[d] \in Block
                           /\ ~free[d][currentBlock[d]]
BY Sizes DEF MappingInv, TypeOK, BlocksOpen, Target

LEMMA WriteToCurrentBlockInv == MappingInv /\ WriteToCurrentBlock => MappingInv'
<1> SUFFICES ASSUME MappingInv, WriteToCurrentBlock PROVE MappingInv'
  OBVIOUS
<1> PICK d, b : d = Target /\ b = currentBlock[d]
  OBVIOUS
<1>1. /\ pc \in {"find", "refind"} /\ currentPage[d][b] < P /\ FinishWrite(d, b)
      /\ UNCHANGED <<links, freeList, freeBlockCnt, free, currentBlock>>
      /\ TypeOK /\ victimBlockNo = NONE
  BY DEF WriteToCurrentBlock, OpenPage, MappingInv, VictimInProgress
<1>2. d \in Die /\ b \in Good[d] /\ b \in Block /\ ~free[d][b]
  BY <1>1, OpenBlock
<1>3. BlocksOnTheirLists'
  <2> SUFFICES ASSUME NEW e \in Die
               PROVE  DieLists(e, links'[e], freeList'[e], freeBlockCnt'[e],
                               gcVictimList'[e], FreeBlocks(e)', Victims(e)')
    BY ListsOfDieNext
  <2>1. DieLists(e, links[e], freeList[e], freeBlockCnt[e], gcVictimList[e],
                 FreeBlocks(e), Victims(e))
    BY ListsOfDie DEF MappingInv
  <2>2. UNCHANGED <<gcVictimList, invalidSliceCnt, victimBlockNo>>
    BY <1>1 DEF FinishWrite
  <2>3. \A c \in Block : ~Collecting(e, c) /\ ~Collecting(e, c)'
    BY <1>1, <2>2, Sizes DEF Collecting
  <2> QED
    BY <1>1, <2>1, <2>2, <2>3, OtherDieLists
<1>4. BlocksOpen'
  BY <1>1, OpenBlock DEF BlocksOpen
<1> QED
  BY <1>1, <1>2, <1>3, <1>4, FinishWriteInv DEF TypeOK

LEMMA WriteToFreeBlockInv == MappingInv /\ WriteToFreeBlock => MappingInv'
<1> SUFFICES ASSUME MappingInv, WriteToFreeBlock PROVE MappingInv'
  OBVIOUS
<1> PICK d, b : d = Target /\ b = freeList[d].head
  OBVIOUS
<1>1. /\ pc \in {"find", "refind"} /\ HasFreeBlockNormal(d) /\ GetFromFbList(d)
      /\ currentBlock' = [currentBlock EXCEPT ![d] = b]
      /\ FinishWrite(d, b)
      /\ TypeOK /\ victimBlockNo = NONE /\ PagesErased
  BY DEF WriteToFreeBlock, MappingInv, VictimInProgress
<1>2. /\ d \in Die
      /\ \A e \in Die : /\ currentBlock[e] \in Good[e] /\ currentBlock[e] \in Block
                        /\ ~free[e][currentBlock[e]]
  BY <1>1, OpenBlock
<1>3. UNCHANGED <<gcVictimList, invalidSliceCnt, victimBlockNo>>
  BY <1>1 DEF FinishWrite
<1>4. \A e \in Die, c \in Block : ~Collecting(e, c) /\ ~Collecting(e, c)'
  BY <1>1, <1>3, Sizes DEF Collecting
<1>5. /\ b \in Good[d] /\ free[d][b] /\ ~free'[d][b]
      /\ \A e \in Die, c \in Block : e # d \/ c # b => free'[e][c] = free[e][c]
      /\ links' \in [Die -> LinksOf(Block)]
      /\ freeList' \in [Die -> ListOf(Block)]
      /\ freeBlockCnt' \in [Die -> Int]
      /\ free' \in [Die -> [Block -> BOOLEAN]]
      /\ BlocksOnTheirLists'
  BY <1>1, <1>2, <1>3, <1>4, GetFromFbListInv
<1>6. b \in Block /\ currentPage[d][b] < P
  BY <1>1, <1>2, <1>5, Sizes DEF PagesErased
<1>7. \A e \in Die, c \in Block : free'[e][c] => free[e][c]
  BY <1>5
<1>8. /\ currentBlock' \in [Die -> BlockOrNone] /\ currentBlock'[d] = b
      /\ \A e \in Die : e # d => currentBlock'[e] = currentBlock[e]
  BY <1>1, <1>2, <1>6 DEF TypeOK, BlockOrNone
<1>9. BlocksOpen'
  BY <1>2, <1>5, <1>7, <1>8 DEF BlocksOpen
<1> QED
  BY <1>1, <1>2, <1>5, <1>6, <1>7, <1>8, <1>9, FinishWriteInv

\* GarbageCollection takes a victim.  When every slice of it is invalid it
\* goes straight to the erasure, which loses nothing.
LEMMA GcStartInv == MappingInv /\ GcStart => MappingInv'
<1> SUFFICES ASSUME MappingInv, GcStart PROVE MappingInv'
  OBVIOUS
<1> PICK d : d = Target
  OBVIOUS
<1>1. /\ TypeOK /\ InvalidSlicesCounted /\ PagesErased /\ WriteInProgress
      /\ victimBlockNo = NONE /\ pc = "find" /\ pc' = "gc"
      /\ UNCHANGED <<mapVars, freeList, freeBlockCnt, blockVars, dieVars, initAt, request,
                     curErased>>
  BY DEF MappingInv, GcStart, VictimInProgress
<1>2. PICK n \in VictimCounts(d) : GetFromGcVictimList(d, n)
  BY DEF GcStart
<1> PICK b : b = victimBlockNo'
  OBVIOUS
<1>3. pageNo' = IF invalidSliceCnt[d][b] = P THEN P ELSE 0
  BY DEF GcStart
<1>4. d \in Die /\ n \in 1..P /\ n \in 0..P
  BY <1>1, OpenBlock, Sizes DEF VictimCounts
<1>5. /\ b \in VictimBlocks(d, n)
      /\ links' \in [Die -> LinksOf(Block)]
      /\ gcVictimList' \in [Die -> [0..P -> ListOf(Block)]]
      /\ \A c \in Die \ {d} : links'[c] = links[c] /\ gcVictimList'[c] = gcVictimList[c]
      /\ DieLists(d, links'[d], freeList[d], freeBlockCnt[d], gcVictimList'[d],
                  FreeBlocks(d), [Victims(d) EXCEPT ![n] = @ \ {b}])
  <2>1. DieLists(d, links[d], freeList[d], freeBlockCnt[d], gcVictimList[d],
                 FreeBlocks(d), Victims(d))
    BY <1>4, ListsOfDie DEF MappingInv
  <2> QED
    BY <1>1, <1>2, <1>4, <2>1, GetFromGcVictimListLists
<1>6. /\ b \in Block /\ b # NONE /\ ~free[d][b] /\ invalidSliceCnt[d][b] = n
      /\ n = Cardinality(InvalidPages(d, b))
  BY <1>1, <1>4, <1>5, Sizes DEF VictimBlocks, InvalidSlicesCounted
<1>7. /\ \A e \in Die, c \in Block : ~Collecting(e, c)
      /\ \A e \in Die, c \in Block : Collecting(e, c)' <=> e = d /\ c = b
  BY <1>1, <1>6, Sizes DEF Collecting, Target, dieVars
\* A block with an invalid page has been written, so it is a good one.
<1>8. b \in Good[d]
  <2>1. InvalidPages(d, b) # {}
    BY <1>4, <1>6, FS_EmptySet
  <2> QED
    <3>1. PICK p \in Page : p < currentPage[d][b]
      BY <2>1 DEF InvalidPages
    <3>2. currentPage[d][b] # 0
      BY <3>1, Sizes
    <3> QED
      BY <1>1, <1>4, <1>6, <3>2 DEF PagesErased
<1>9. BlocksOnTheirLists'
  <2>1. \A m \in 0..P : VictimBlocks(d, m)' = IF m = n THEN VictimBlocks(d, n) \ {b}
                                              ELSE VictimBlocks(d, m)
    <3> SUFFICES ASSUME NEW m \in 0..P, NEW c \in Block
                 PROVE  c \in VictimBlocks(d, m)' <=> c \in VictimBlocks(d, m) /\ ~(m = n /\ c = b)
      BY DEF VictimBlocks
    <3> QED
      BY <1>1, <1>4, <1>6, <1>7 DEF VictimBlocks, blockVars
  <2>2. Victims(d)' = [Victims(d) EXCEPT ![n] = @ \ {b}]
    BY <1>4, <2>1 DEF Victims
  <2>3. FreeBlocks(d)' = FreeBlocks(d)
    BY <1>1 DEF FreeBlocks, blockVars
  <2> SUFFICES ASSUME NEW c \in Die
               PROVE  DieLists(c, links'[c], freeList'[c], freeBlockCnt'[c],
                               gcVictimList'[c], FreeBlocks(c)', Victims(c)')
    BY ListsOfDieNext
  <2>4. CASE c = d
    BY <1>1, <1>5, <2>2, <2>3, <2>4
  <2>5. CASE c # d
    <3>1. DieLists(c, links[c], freeList[c], freeBlockCnt[c], gcVictimList[c],
                   FreeBlocks(c), Victims(c))
      BY ListsOfDie DEF MappingInv
    <3> QED
      BY <1>1, <1>5, <1>7, <2>5, <3>1, OtherDieLists DEF blockVars
  <2> QED
    BY <2>4, <2>5
<1>10. \A e \in Die, c \in Block : InvalidPages(e, c)' = InvalidPages(e, c)
  BY <1>1 DEF InvalidPages, PageValid, mapVars, blockVars
<1>11. InvalidSlicesCounted'
  BY <1>1, <1>7, <1>10 DEF InvalidSlicesCounted, blockVars
<1>12. VictimInProgress'
  <2>1. \A p \in Page : p < pageNo' => ~PageValid(<<d, b, p>>)
    <3>1. CASE invalidSliceCnt[d][b] = P
      BY <1>6, <3>1, InvalidPagesBound DEF InvalidPages
    <3>2. CASE invalidSliceCnt[d][b] # P
      BY <1>3, <3>2, Sizes
    <3> QED
      BY <3>1, <3>2
  <2>2. \A p \in Page : PageValid(<<d, b, p>>)' <=> PageValid(<<d, b, p>>)
    BY <1>1 DEF PageValid, mapVars
  <2>3. Target' = d
    BY <1>1 DEF Target, dieVars
  <2> QED
    BY <1>1, <1>6, <1>8, <2>1, <2>2, <2>3 DEF VictimInProgress, blockVars
<1>13. pageNo' \in 0..P
  BY <1>3, Sizes
<1>14. TypeOK'
  BY <1>1, <1>5, <1>6, <1>13 DEF TypeOK, BlockOrNone, mapVars, blockVars, dieVars
<1>15. LiveDataMapped' /\ PagesErased'
  BY <1>1 DEF MappingInv, LiveDataMapped, PagesErased, mapVars, blockVars
<1>16. WriteInProgress' /\ BlocksOpen' /\ Booting'
  BY <1>1 DEF MappingInv, WriteInProgress, BlocksOpen, Booting, mapVars, blockVars, dieVars
<1> QED
  BY <1>9, <1>11, <1>12, <1>14, <1>15, <1>16 DEF MappingInv

LEMMA GcSkipPageInv == MappingInv /\ GcSkipPage => MappingInv'
<1> SUFFICES ASSUME MappingInv, GcSkipPage PROVE MappingInv'
  OBVIOUS
<1> PICK d, b : d = Target /\ b = victimBlockNo
  OBVIOUS
<1>1. /\ pc = "gc" /\ pageNo < P /\ ~VictimPageValid /\ pageNo' = pageNo + 1
      /\ UNCHANGED <<mapVars, listVars, blockVars, dieVars, pc, initAt, request,
                     victimBlockNo, curErased>>
      /\ TypeOK /\ VictimInProgress
  BY DEF GcSkipPage, MappingInv
<1>2. /\ d \in Die /\ b \in Good[d] /\ b \in Block /\ pageNo \in Nat
      /\ \A p \in Page : p < pageNo => ~PageValid(<<d, b, p>>)
  <2>1. d \in Die /\ pageNo \in Nat
    BY <1>1, Sizes DEF TypeOK, Target
  <2>2. b \in Good[d] /\ \A p \in Page : p < pageNo => ~PageValid(<<d, b, p>>)
    BY <1>1 DEF VictimInProgress
  <2> QED
    BY <2>1, <2>2, Sizes
<1>3. ~PageValid(<<d, b, pageNo>>)
  BY <1>1 DEF VictimPageValid, PageValid, VictimVsa
<1>4. TypeOK'
  <2>1. pageNo' \in 0..P
    BY <1>1, <1>2, Sizes
  <2> QED
    BY <1>1, <2>1 DEF TypeOK, BlockOrNone, mapVars, listVars, blockVars, dieVars
<1>5. VictimInProgress'
  <2>1. \A p \in Page : p < pageNo + 1 => ~PageValid(<<d, b, p>>)
    BY <1>2, <1>3, Sizes
  <2>2. \A p \in Page : PageValid(<<d, b, p>>)' <=> PageValid(<<d, b, p>>)
    BY <1>1 DEF PageValid, mapVars
  <2>3. Target' = d
    BY <1>1 DEF Target, dieVars
  <2> QED
    BY <1>1, <2>1, <2>2, <2>3 DEF VictimInProgress, blockVars
<1>6. BlocksOnTheirLists'
  <2> SUFFICES ASSUME NEW c \in Die
               PROVE  DieLists(c, links'[c], freeList'[c], freeBlockCnt'[c],
                               gcVictimList'[c], FreeBlocks(c)', Victims(c)')
    BY ListsOfDieNext
  <2>1. DieLists(c, links[c], freeList[c], freeBlockCnt[c], gcVictimList[c],
                 FreeBlocks(c), Victims(c))
    BY ListsOfDie DEF MappingInv
  <2>2. \A e \in Block : Collecting(c, e)' <=> Collecting(c, e)
    BY <1>1 DEF Collecting, Target, dieVars
  <2> QED
    BY <1>1, <2>1, <2>2, OtherDieLists DEF listVars, blockVars
<1>7. InvalidSlicesCounted'
  <2>1. \A e \in Die, c \in Block : /\ InvalidPages(e, c)' = InvalidPages(e, c)
                                    /\ Collecting(e, c)' <=> Collecting(e, c)
    BY <1>1 DEF InvalidPages, PageValid, Collecting, Target, mapVars, blockVars, dieVars
  <2> QED
    BY <1>1, <2>1 DEF MappingInv, InvalidSlicesCounted, blockVars
<1>8. LiveDataMapped' /\ PagesErased'
  BY <1>1 DEF MappingInv, LiveDataMapped, PagesErased, mapVars, blockVars
<1>9. WriteInProgress' /\ BlocksOpen' /\ Booting'
  BY <1>1 DEF MappingInv, WriteInProgress, BlocksOpen, Booting, mapVars, blockVars, dieVars
<1> QED
  BY <1>4, <1>5, <1>6, <1>7, <1>8, <1>9 DEF MappingInv

\* The victim's page, with the names the proofs of the collector share.
LEMMA VictimFacts ==
  ASSUME MappingInv, pc = "gc"
  PROVE  /\ Target \in Die /\ victimBlockNo \in Good[Target] /\ victimBlockNo \in Block
         /\ ~free[Target][victimBlockNo] /\ pageNo \in 0..P
         /\ \A p \in Page : p < pageNo => ~PageValid(<<Target, victimBlockNo, p>>)
         /\ request.lsa \in LSA /\ logicalSliceMap[request.lsa] = NONE
<1>1. TypeOK /\ VictimInProgress /\ WriteInProgress
  BY DEF MappingInv
<1>2. Target \in Die /\ pageNo \in 0..P
  BY <1>1 DEF TypeOK, Target
<1>3. victimBlockNo \in Good[Target] /\ victimBlockNo \in Block
  BY <1>1, <1>2, Sizes DEF VictimInProgress
<1> QED
  BY <1>1, <1>2, <1>3 DEF VictimInProgress, WriteInProgress

\* A page copied to block b of the victim's die, b being another block than
\* the victim: the invariant follows once b is known to be open.
LEMMA CopyInv ==
  ASSUME MappingInv, pc = "gc", NEW d, d = Target, NEW v, v = victimBlockNo,
         pageNo < P, NEW l, l = virtualSliceMap[VictimVsa], VictimPageValid,
         NEW b \in Good[d], b # v, currentPage[d][b] < P, ~free'[d][b],
         Program(d, b, l, flash[VictimVsa]),
         \A e \in Die, c \in Block : free'[e][c] => free[e][c],
         pageNo' = pageNo + 1,
         UNCHANGED <<gcVictimList, invalidSliceCnt, sliceAllocationTargetDie, pc, initAt,
                     request, victimBlockNo, curErased>>,
         links' \in [Die -> LinksOf(Block)], freeList' \in [Die -> ListOf(Block)],
         freeBlockCnt' \in [Die -> Int], free' \in [Die -> [Block -> BOOLEAN]],
         currentBlock' \in [Die -> BlockOrNone],
         BlocksOnTheirLists', BlocksOpen'
  PROVE  MappingInv'
<1> DEFINE vsa == <<d, v, pageNo>>
<1>1. /\ TypeOK /\ LiveDataMapped /\ PagesErased /\ InvalidSlicesCounted
      /\ VictimInProgress
  BY DEF MappingInv
<1>2. /\ d \in Die /\ v \in Good[d] /\ v \in Block /\ ~free[d][v] /\ pageNo \in 0..P
      /\ \A p \in Page : p < pageNo => ~PageValid(<<d, v, p>>)
      /\ request.lsa \in LSA /\ logicalSliceMap[request.lsa] = NONE
  BY VictimFacts
<1>3. pageNo \in Page /\ vsa \in VSA /\ vsa = VictimVsa
  BY <1>2, Sizes DEF Page, VSA, VictimVsa
<1>4. /\ l \in LSA /\ logicalSliceMap[l] = vsa /\ l # request.lsa
      /\ flash[vsa] \in Data \cup {NONE}
  <2>1. l \in LSA /\ logicalSliceMap[l] = vsa
    BY <1>1, <1>3 DEF VictimPageValid, TypeOK
  <2>2. flash[vsa] \in Data \cup {NONE}
    BY <1>1, <1>3 DEF TypeOK
  <2> QED
    BY <1>2, <1>3, <2>1, <2>2, Sizes
<1> PICK x \in Data \cup {NONE} : x = flash[vsa]
  BY <1>4
<1>5. Program(d, b, l, x)
  BY <1>3
<1> HIDE DEF vsa
<1>6. /\ logicalSliceMap' \in [LSA -> VSA \cup {NONE}]
      /\ virtualSliceMap' \in [VSA -> LSA \cup {NONE}]
      /\ flash' \in [VSA -> Data \cup {NONE}]
      /\ currentPage' \in [Die -> [Block -> Nat]]
      /\ LiveDataMapped'
      /\ \A e \in Die, c \in Block : currentPage'[e][c] <= P
      /\ \A e \in Die, c \in Block : e # d \/ c # b => currentPage'[e][c] = currentPage[e][c]
      /\ \A w \in VSA : w[3] >= currentPage'[w[1]][w[2]] => virtualSliceMap'[w] = NONE
      /\ \A k \in LSA : k # l => logicalSliceMap'[k] = logicalSliceMap[k]
      /\ \A e \in Die, c \in Block, p \in Page :
           PageValid(<<e, c, p>>)' <=>
             \/ <<e, c, p>> = <<d, b, currentPage[d][b]>>
             \/ PageValid(<<e, c, p>>) /\ <<e, c, p>> # logicalSliceMap[l]
      /\ \A e \in Die, c \in Block :
           (\A p \in Page : logicalSliceMap[l] # <<e, c, p>>) =>
             InvalidPages(e, c)' = InvalidPages(e, c)
  <2>1. /\ d \in Die /\ b \in Good[d] /\ l \in LSA /\ x \in Data \cup {NONE}
        /\ currentPage[d][b] < P /\ ~free'[d][b]
        /\ \A e \in Die, c \in Block : free'[e][c] => free[e][c]
    BY <1>2, <1>4
  <2> QED
    BY ONLY <1>1, <1>5, <2>1, ProgramPages
<1>7. \A e \in Die, c \in Block : /\ Collecting(e, c) <=> e = d /\ c = v
                                  /\ Collecting(e, c)' <=> e = d /\ c = v
  BY DEF Collecting, Target
<1>8. InvalidSlicesCounted'
  <2> SUFFICES ASSUME NEW e \in Die, NEW c \in Block, e # d \/ c # v
               PROVE  invalidSliceCnt'[e][c] = Cardinality(InvalidPages(e, c)')
    BY <1>7 DEF InvalidSlicesCounted
  <2>1. InvalidPages(e, c)' = InvalidPages(e, c)
    BY <1>4, <1>6 DEF vsa
  <2> QED
    BY <1>1, <1>7, <2>1 DEF InvalidSlicesCounted
<1>9. PagesErased'
  <2>1. \A e \in Die, c \in Block :
          /\ free'[e][c] => currentPage'[e][c] = 0 /\ invalidSliceCnt'[e][c] = 0
          /\ c \notin Good[e] => currentPage'[e][c] = 0
    <3> TAKE e \in Die, c \in Block
    <3>1. CASE e = d /\ c = b
      BY <3>1
    <3>2. CASE e # d \/ c # b
      <4>1. /\ currentPage'[e][c] = currentPage[e][c]
            /\ invalidSliceCnt'[e][c] = invalidSliceCnt[e][c]
        BY <1>6, <3>2
      <4>2. /\ free[e][c] => currentPage[e][c] = 0 /\ invalidSliceCnt[e][c] = 0
            /\ c \notin Good[e] => currentPage[e][c] = 0
        BY <1>1 DEF PagesErased
      <4> QED
        BY <4>1, <4>2
    <3> QED
      BY <3>1, <3>2
  <2> QED
    BY <1>6, <2>1 DEF PagesErased
<1>10. VictimInProgress'
  <2>1. ASSUME NEW p \in Page, p < pageNo + 1 PROVE ~PageValid(<<d, v, p>>)'
    <3>1. p < pageNo \/ p = pageNo
      <4>1. p \in Nat
        BY Sizes
      <4>2. pageNo \in Nat
        BY <1>2, Sizes
      <4> QED
        BY ONLY <2>1, <4>1, <4>2
    <3>2. PageValid(<<d, v, p>>)' <=> PageValid(<<d, v, p>>) /\ <<d, v, p>> # logicalSliceMap[l]
      BY <1>2, <1>6
    <3> QED
      BY <1>2, <1>4, <3>1, <3>2 DEF vsa
  <2>2. Target' = d /\ victimBlockNo' = v /\ v # NONE /\ pc' = "gc"
    BY <1>2, Sizes DEF Target
  <2>3. ~free'[d][v]
    BY <1>2
  <2> QED
    BY <1>2, <2>1, <2>2, <2>3 DEF VictimInProgress
<1>11. WriteInProgress' /\ Booting'
  BY <1>2, <1>4, <1>6 DEF WriteInProgress, Booting, MappingInv
<1>12. pageNo' \in 0..P
  BY <1>2, Sizes
<1>13. TypeOK'
  BY <1>1, <1>6, <1>12 DEF TypeOK, BlockOrNone
<1> QED
  BY <1>6, <1>8, <1>9, <1>10, <1>11, <1>13 DEF MappingInv

LEMMA GcCopyPageInv == MappingInv /\ GcCopyPage => MappingInv'
<1> SUFFICES ASSUME MappingInv, GcCopyPage PROVE MappingInv'
  OBVIOUS
<1> PICK d, v, l, b : /\ d = Target /\ v = victimBlockNo /\ l = virtualSliceMap[VictimVsa]
                      /\ b = IF GcNeedsBlock THEN freeList[d].head ELSE currentBlock[d]
  OBVIOUS
<1>1. /\ pc = "gc" /\ pageNo < P /\ VictimPageValid /\ pageNo' = pageNo + 1
      /\ UNCHANGED <<gcVictimList, invalidSliceCnt, sliceAllocationTargetDie, pc, initAt,
                     request, victimBlockNo, curErased>>
      /\ TypeOK /\ PagesErased
  BY DEF GcCopyPage, MappingInv
<1>2. /\ d \in Die /\ v \in Good[d] /\ v \in Block /\ ~free[d][v]
      /\ \A e \in Die : /\ currentBlock[e] \in Good[e] /\ currentBlock[e] \in Block
                        /\ ~free[e][currentBlock[e]]
  BY <1>1, VictimFacts, OpenBlock
<1>3. \A e \in Die, c \in Block : Collecting(e, c)' <=> Collecting(e, c)
  BY <1>1 DEF Collecting, Target
<1>4. CASE GcNeedsBlock
  <2>1. /\ HasFreeBlockGc(d) /\ GetFromFbList(d) /\ b = freeList[d].head
        /\ currentBlock' = [currentBlock EXCEPT ![d] = b]
        /\ Program(d, b, l, flash[VictimVsa])
    BY <1>4 DEF GcCopyPage
  <2>2. /\ b \in Good[d] /\ free[d][b] /\ ~free'[d][b]
        /\ \A e \in Die, c \in Block : e # d \/ c # b => free'[e][c] = free[e][c]
        /\ links' \in [Die -> LinksOf(Block)]
        /\ freeList' \in [Die -> ListOf(Block)]
        /\ freeBlockCnt' \in [Die -> Int]
        /\ free' \in [Die -> [Block -> BOOLEAN]]
        /\ BlocksOnTheirLists'
    BY <1>1, <1>2, <1>3, <2>1, GetFromFbListInv
  <2>3. b \in Block /\ currentPage[d][b] < P /\ b # v
    BY <1>1, <1>2, <2>2, Sizes DEF PagesErased
  <2>4. \A e \in Die, c \in Block : free'[e][c] => free[e][c]
    BY <2>2
  <2>5. /\ currentBlock' \in [Die -> BlockOrNone] /\ currentBlock'[d] = b
        /\ \A e \in Die : e # d => currentBlock'[e] = currentBlock[e]
    BY <1>1, <1>2, <2>1, <2>3 DEF TypeOK, BlockOrNone
  <2>6. BlocksOpen'
    BY <1>2, <2>2, <2>4, <2>5 DEF BlocksOpen
  <2> QED
    BY <1>1, <2>1, <2>2, <2>3, <2>4, <2>5, <2>6, CopyInv
<1>5. CASE ~GcNeedsBlock
  <2>1. /\ currentPage[d][b] < P /\ b = currentBlock[d] /\ b # v
        /\ Program(d, b, l, flash[VictimVsa])
        /\ UNCHANGED <<links, freeList, freeBlockCnt, free, currentBlock>>
    BY <1>5 DEF GcCopyPage, GcNeedsBlock, OpenPage
  <2>2. BlocksOnTheirLists'
    <3> SUFFICES ASSUME NEW e \in Die
                 PROVE  DieLists(e, links'[e], freeList'[e], freeBlockCnt'[e],
                                 gcVictimList'[e], FreeBlocks(e)', Victims(e)')
      BY ListsOfDieNext
    <3>1. DieLists(e, links[e], freeList[e], freeBlockCnt[e], gcVictimList[e],
                   FreeBlocks(e), Victims(e))
      BY ListsOfDie DEF MappingInv
    <3> QED
      BY <1>1, <1>3, <2>1, <3>1, OtherDieLists
  <2>3. BlocksOpen'
    BY <1>2, <2>1 DEF BlocksOpen
  <2>4. /\ links' \in [Die -> LinksOf(Block)] /\ freeList' \in [Die -> ListOf(Block)]
        /\ freeBlockCnt' \in [Die -> Int] /\ free' \in [Die -> [Block -> BOOLEAN]]
        /\ currentBlock' \in [Die -> BlockOrNone]
    BY <1>1, <2>1 DEF TypeOK
  <2>5. b \in Good[d] /\ ~free'[d][b]
    BY <1>2, <2>1
  <2>6. \A e \in Die, c \in Block : free'[e][c] => free[e][c]
    BY <2>1
  <2> QED
    BY <1>1, <2>1, <2>2, <2>3, <2>4, <2>5, <2>6, CopyInv
<1> QED
  BY <1>4, <1>5

\* EraseBlock of a victim that is not open: nothing maps to it any more, so
\* only erased pages are lost, and the block is free again.
LEMMA EraseBlockInv ==
  ASSUME MappingInv, EraseBlock, ~curErased' PROVE MappingInv'
<1> PICK d, v : d = Target /\ v = victimBlockNo
  OBVIOUS
<1>1. /\ pc = "gc" /\ pageNo = P /\ PutToFbList(d, v)
      /\ free' = [free EXCEPT ![d] = [free[d] EXCEPT ![v] = TRUE]]
      /\ invalidSliceCnt' = [invalidSliceCnt EXCEPT ![d] = [invalidSliceCnt[d] EXCEPT ![v] = 0]]
      /\ currentPage' = [currentPage EXCEPT ![d] = [currentPage[d] EXCEPT ![v] = 0]]
      /\ virtualSliceMap' = [w \in VSA |-> IF w[1] = d /\ w[2] = v THEN NONE
                                           ELSE virtualSliceMap[w]]
      /\ flash' = [w \in VSA |-> IF w[1] = d /\ w[2] = v THEN NONE ELSE flash[w]]
      /\ v # currentBlock[d]
      /\ victimBlockNo' = NONE /\ pageNo' = 0 /\ pc' = "refind"
      /\ UNCHANGED <<logicalSliceMap, gcVictimList, dieVars, initAt, request>>
  BY DEF EraseBlock
<1>2. /\ TypeOK /\ LiveDataMapped /\ InvalidSlicesCounted /\ PagesErased
      /\ d \in Die /\ v \in Good[d] /\ v \in Block /\ ~free[d][v]
      /\ \A p \in Page : ~PageValid(<<d, v, p>>)
      /\ request.lsa \in LSA /\ logicalSliceMap[request.lsa] = NONE
      /\ \A e \in Die : /\ currentBlock[e] \in Good[e] /\ currentBlock[e] \in Block
                        /\ ~free[e][currentBlock[e]]
  BY <1>1, VictimFacts, OpenBlock, Sizes DEF MappingInv
<1>3. /\ \A e \in Die, c \in Block : Collecting(e, c) <=> e = d /\ c = v
      /\ \A e \in Die, c \in Block : ~Collecting(e, c)'
  BY <1>1, Sizes DEF Collecting
<1>4. /\ free' \in [Die -> [Block -> BOOLEAN]]
      /\ free'[d][v]
      /\ \A e \in Die, c \in Block : e # d \/ c # v => free'[e][c] = free[e][c]
      /\ \A e \in Die : e # d => free'[e] = free[e]
  <2>1. free \in [Die -> [Block -> BOOLEAN]] /\ free[d] \in [Block -> BOOLEAN]
    BY <1>2 DEF TypeOK
  <2> QED
    BY <1>1, <1>2, <2>1
<1>5. /\ invalidSliceCnt' \in [Die -> [Block -> 0..P]]
      /\ invalidSliceCnt'[d][v] = 0
      /\ \A e \in Die, c \in Block : e # d \/ c # v =>
           invalidSliceCnt'[e][c] = invalidSliceCnt[e][c]
      /\ \A e \in Die : e # d => invalidSliceCnt'[e] = invalidSliceCnt[e]
  <2>1. /\ invalidSliceCnt \in [Die -> [Block -> 0..P]]
        /\ invalidSliceCnt[d] \in [Block -> 0..P]
    BY <1>2 DEF TypeOK
  <2>2. 0 \in 0..P
    BY Sizes
  <2> QED
    BY <1>1, <1>2, <2>1, <2>2
<1>6. /\ currentPage' \in [Die -> [Block -> Nat]]
      /\ currentPage'[d][v] = 0
      /\ \A e \in Die, c \in Block : e # d \/ c # v => currentPage'[e][c] = currentPage[e][c]
  <2>1. /\ currentPage \in [Die -> [Block -> Nat]] /\ currentPage[d] \in [Block -> Nat]
    BY <1>2 DEF TypeOK
  <2> QED
    BY <1>1, <1>2, <2>1
<1>7. /\ virtualSliceMap' \in [VSA -> LSA \cup {NONE}]
      /\ flash' \in [VSA -> Data \cup {NONE}]
      /\ \A w \in VSA : w[1] # d \/ w[2] # v => virtualSliceMap'[w] = virtualSliceMap[w]
      /\ \A w \in VSA : w[1] = d /\ w[2] = v => virtualSliceMap'[w] = NONE
  BY <1>1, <1>2 DEF TypeOK
<1>8. \A k \in LSA : LET w == logicalSliceMap[k] IN w # NONE => w[1] # d \/ w[2] # v
  <2> SUFFICES ASSUME NEW k \in LSA, NEW w, w = logicalSliceMap[k], w # NONE
               PROVE  w[1] # d \/ w[2] # v
    OBVIOUS
  <2>1. w \in VSA /\ PageValid(w)
    BY <1>2, MappedPageValid
  <2>2. w = <<w[1], w[2], w[3]>> /\ w[3] \in Page
    BY <2>1, Sizes
  <2> QED
    BY <1>2, <2>1, <2>2
<1>9. BlocksOnTheirLists' /\ links' \in [Die -> LinksOf(Block)]
      /\ freeList' \in [Die -> ListOf(Block)] /\ freeBlockCnt' \in [Die -> Int]
  <2>1. DieLists(d, links[d], freeList[d], freeBlockCnt[d], gcVictimList[d],
                 FreeBlocks(d), Victims(d))
    BY <1>2, ListsOfDie DEF MappingInv
  <2>2. v \notin FreeBlocks(d) /\ \A n \in 0..P : v \notin VictimBlocks(d, n)
    BY <1>2, <1>3 DEF FreeBlocks, VictimBlocks
  <2>3. /\ links' \in [Die -> LinksOf(Block)]
        /\ freeList' \in [Die -> ListOf(Block)]
        /\ freeBlockCnt' \in [Die -> Int]
        /\ \A c \in Die \ {d} : /\ links'[c] = links[c] /\ freeList'[c] = freeList[c]
                                /\ freeBlockCnt'[c] = freeBlockCnt[c]
        /\ DieLists(d, links'[d], freeList'[d], freeBlockCnt'[d], gcVictimList[d],
                    FreeBlocks(d) \cup {v}, [Victims(d) EXCEPT ![0] = @ \ {v}])
    <3>1. \A n \in 1..P : v \notin VictimBlocks(d, n)
      BY <2>2, Sizes
    <3>2. TypeOK /\ PutToFbList(d, v) /\ d \in Die /\ v \in Good[d]
      BY <1>1, <1>2
    <3> QED
      BY <2>1, <2>2, <3>1, <3>2, PutToFbListLists
  <2>4. FreeBlocks(d)' = FreeBlocks(d) \cup {v}
    BY <1>2, <1>4, Sizes DEF FreeBlocks
  <2>5. \A n \in 0..P : VictimBlocks(d, n)' = VictimBlocks(d, n)
    <3> SUFFICES ASSUME NEW n \in 0..P, NEW c \in Block
                 PROVE  c \in VictimBlocks(d, n)' <=> c \in VictimBlocks(d, n)
      BY DEF VictimBlocks
    <3> QED
      BY <1>2, <1>3, <1>4, <1>5 DEF VictimBlocks
  <2>6. Victims(d)' = Victims(d) /\ [Victims(d) EXCEPT ![0] = @ \ {v}] = Victims(d)
    BY <2>2, <2>5, Sizes DEF Victims
  <2>7. BlocksOnTheirLists'
    <3> SUFFICES ASSUME NEW c \in Die
                 PROVE  DieLists(c, links'[c], freeList'[c], freeBlockCnt'[c],
                                 gcVictimList'[c], FreeBlocks(c)', Victims(c)')
      BY ListsOfDieNext
    <3>1. CASE c = d
      BY <1>1, <2>3, <2>4, <2>6, <3>1
    <3>2. CASE c # d
      <4>1. DieLists(c, links[c], freeList[c], freeBlockCnt[c], gcVictimList[c],
                     FreeBlocks(c), Victims(c))
        BY ListsOfDie DEF MappingInv
      <4> QED
        BY <1>1, <1>3, <1>4, <1>5, <2>3, <3>2, <4>1, OtherDieLists
    <3> QED
      BY <3>1, <3>2
  <2> QED
    BY <2>3, <2>7
<1>10. LiveDataMapped'
  <2> SUFFICES ASSUME NEW k \in LSA, NEW w, w = logicalSliceMap[k], w # NONE
               PROVE  /\ virtualSliceMap'[w] = k
                      /\ w[3] < currentPage'[w[1]][w[2]]
                      /\ w[2] \in Good[w[1]]
                      /\ ~free'[w[1]][w[2]]
    BY <1>1 DEF LiveDataMapped
  <2>1. w \in VSA /\ w[1] \in Die /\ w[2] \in Block /\ (w[1] # d \/ w[2] # v)
    BY <1>2, <1>8, Sizes DEF TypeOK
  <2>2. /\ virtualSliceMap[w] = k
        /\ w[3] < currentPage[w[1]][w[2]]
        /\ w[2] \in Good[w[1]]
        /\ ~free[w[1]][w[2]]
    BY <1>2 DEF LiveDataMapped
  <2> QED
    BY <1>4, <1>6, <1>7, <2>1, <2>2
<1>11. ASSUME NEW e \in Die, NEW c \in Block, e # d \/ c # v
       PROVE  InvalidPages(e, c)' = InvalidPages(e, c)
  <2>1. \A p \in Page : PageValid(<<e, c, p>>)' <=> PageValid(<<e, c, p>>)
    BY <1>1, <1>7, <1>11 DEF PageValid, VSA
  <2> QED
    BY <1>6, <1>11, <2>1 DEF InvalidPages
<1>12. InvalidSlicesCounted'
  <2> SUFFICES ASSUME NEW e \in Die, NEW c \in Block
               PROVE  invalidSliceCnt'[e][c] = Cardinality(InvalidPages(e, c)')
    BY DEF InvalidSlicesCounted
  <2>1. CASE e = d /\ c = v
    <3>1. InvalidPages(d, v)' = {}
      BY <1>6, Sizes DEF InvalidPages
    <3> QED
      BY <1>5, <2>1, <3>1, FS_EmptySet
  <2>2. CASE e # d \/ c # v
    BY <1>2, <1>3, <1>5, <1>11, <2>2 DEF InvalidSlicesCounted
  <2> QED
    BY <2>1, <2>2
<1>13. PagesErased'
  <2>1. ASSUME NEW e \in Die, NEW c \in Block
        PROVE  /\ currentPage'[e][c] <= P
               /\ free'[e][c] => currentPage'[e][c] = 0 /\ invalidSliceCnt'[e][c] = 0
               /\ c \notin Good[e] => currentPage'[e][c] = 0
    <3>1. CASE e = d /\ c = v
      BY <1>5, <1>6, <3>1, Sizes
    <3>2. CASE e # d \/ c # v
      <4>1. /\ currentPage[e][c] <= P
            /\ free[e][c] => currentPage[e][c] = 0 /\ invalidSliceCnt[e][c] = 0
            /\ c \notin Good[e] => currentPage[e][c] = 0
        BY <1>2 DEF PagesErased
      <4>2. /\ free'[e][c] = free[e][c] /\ currentPage'[e][c] = currentPage[e][c]
            /\ invalidSliceCnt'[e][c] = invalidSliceCnt[e][c]
        BY <1>4, <1>5, <1>6, <3>2
      <4> QED
        BY <4>1, <4>2
    <3> QED
      BY <3>1, <3>2
  <2>2. ASSUME NEW w \in VSA, w[3] >= currentPage'[w[1]][w[2]]
        PROVE  virtualSliceMap'[w] = NONE
    <3>1. w[1] \in Die /\ w[2] \in Block
      BY Sizes
    <3>2. CASE w[1] = d /\ w[2] = v
      BY <1>7, <3>2
    <3>3. CASE w[1] # d \/ w[2] # v
      <4>1. currentPage'[w[1]][w[2]] = currentPage[w[1]][w[2]]
        BY <1>6, <3>1, <3>3
      <4>2. virtualSliceMap[w] = NONE
        BY <1>2, <2>2, <4>1 DEF PagesErased
      <4> QED
        BY <1>7, <3>3, <4>2
    <3> QED
      BY <3>2, <3>3
  <2> QED
    BY <2>1, <2>2 DEF PagesErased
<1>14. BlocksOpen'
  <2> SUFFICES ASSUME NEW e \in Die
               PROVE  currentBlock[e] \in Good[e] /\ ~free'[e][currentBlock[e]]
    BY <1>1 DEF BlocksOpen, dieVars
  <2>1. e # d \/ currentBlock[e] # v
    BY <1>1
  <2> QED
    BY <1>2, <1>4, <2>1
<1>15. VictimInProgress' /\ WriteInProgress' /\ Booting'
  <2>1. WriteInProgress'
    BY <1>1, <1>2 DEF WriteInProgress, MappingInv
  <2> QED
    BY <1>1, <2>1 DEF VictimInProgress, Booting
<1>16. TypeOK'
  <2>1. 0 \in 0..P /\ curErased' \in BOOLEAN
    BY Sizes DEF EraseBlock
  <2> QED
    BY <1>1, <1>2, <1>4, <1>5, <1>6, <1>7, <1>9, <2>1 DEF TypeOK, BlockOrNone, dieVars
<1> QED
  BY <1>9, <1>10, <1>12, <1>13, <1>14, <1>15, <1>16 DEF MappingInv

\* IInv is inductive.
LEMMA StutterInv == MappingInv /\ UNCHANGED vars => MappingInv'
<1> SUFFICES ASSUME MappingInv, UNCHANGED vars PROVE MappingInv'
  OBVIOUS
<1>1. /\ UNCHANGED <<logicalSliceMap, virtualSliceMap, flash>>
      /\ UNCHANGED <<links, freeList, freeBlockCnt, gcVictimList>>
      /\ UNCHANGED <<free, invalidSliceCnt, currentPage>>
      /\ UNCHANGED <<currentBlock, sliceAllocationTargetDie>>
      /\ UNCHANGED <<pc, initAt, request, victimBlockNo, pageNo, curErased>>
  BY DEF vars, mapVars, listVars, blockVars, dieVars, ctlVars
<1>2. TypeOK'
  BY <1>1 DEF MappingInv, TypeOK, BlockOrNone
<1>3. /\ \A d \in Die, b \in Block : InvalidPages(d, b)' = InvalidPages(d, b)
      /\ \A d \in Die, b \in Block : Collecting(d, b)' <=> Collecting(d, b)
  BY <1>1 DEF InvalidPages, PageValid, Collecting, Target
<1>4. BlocksOnTheirLists'
  <2> SUFFICES ASSUME NEW c \in Die
               PROVE  DieLists(c, links'[c], freeList'[c], freeBlockCnt'[c],
                               gcVictimList'[c], FreeBlocks(c)', Victims(c)')
    BY ListsOfDieNext
  <2>1. DieLists(c, links[c], freeList[c], freeBlockCnt[c], gcVictimList[c],
                 FreeBlocks(c), Victims(c))
    BY ListsOfDie DEF MappingInv
  <2>2. /\ links'[c] = links[c] /\ freeList'[c] = freeList[c]
        /\ freeBlockCnt'[c] = freeBlockCnt[c] /\ gcVictimList'[c] = gcVictimList[c]
        /\ free'[c] = free[c] /\ invalidSliceCnt'[c] = invalidSliceCnt[c]
    BY <1>1
  <2>3. \A b \in Block : Collecting(c, b)' <=> Collecting(c, b)
    BY <1>3
  <2> QED
    BY ONLY <2>1, <2>2, <2>3, c \in Die, OtherDieLists
<1>5. InvalidSlicesCounted'
  <2>1. invalidSliceCnt' = invalidSliceCnt /\ InvalidSlicesCounted
    BY <1>1 DEF MappingInv
  <2> QED
    BY ONLY <1>3, <2>1 DEF InvalidSlicesCounted
<1>6. LiveDataMapped' /\ PagesErased'
  BY <1>1 DEF MappingInv, LiveDataMapped, PagesErased
<1>7. VictimInProgress'
  BY <1>1 DEF MappingInv, VictimInProgress, PageValid, Target
<1>8. WriteInProgress' /\ BlocksOpen' /\ Booting'
  BY <1>1 DEF MappingInv, WriteInProgress, BlocksOpen, Booting
<1> QED
  BY <1>2, <1>4, <1>5, <1>6, <1>7, <1>8 DEF MappingInv

LEMMA NextInv == IInv /\ [Next]_vars => IInv'
<1> SUFFICES ASSUME IInv, [Next]_vars, ~curErased' PROVE MappingInv'
  BY DEF IInv
\* The history variable is never reset.
<1>1. MappingInv
  BY DEF IInv, Next, vars, InitBlockMap, InitCurrentBlockOfDieMap, AddrTransWrite,
         WriteToCurrentBlock, WriteToFreeBlock, FinishWrite, GcStart, GcSkipPage,
         GcCopyPage, EraseBlock
<1>2. CASE InitBlockMap
  BY <1>1, <1>2, InitBlockMapInv
<1>3. CASE InitCurrentBlockOfDieMap
  BY <1>1, <1>3, InitCurrentBlockOfDieMapInv
<1>4. CASE \E l \in LSA, x \in Data : AddrTransWrite(l, x)
  BY <1>1, <1>4, AddrTransWriteInv
<1>5. CASE WriteToCurrentBlock
  BY <1>1, <1>5, WriteToCurrentBlockInv
<1>6. CASE WriteToFreeBlock
  BY <1>1, <1>6, WriteToFreeBlockInv
<1>7. CASE GcStart
  BY <1>1, <1>7, GcStartInv
<1>8. CASE GcSkipPage
  BY <1>1, <1>8, GcSkipPageInv
<1>9. CASE GcCopyPage
  BY <1>1, <1>9, GcCopyPageInv
<1>10. CASE EraseBlock
  BY <1>1, <1>10, EraseBlockInv
<1>11. CASE UNCHANGED vars
  BY <1>1, <1>11, StutterInv
<1> QED
  BY <1>2, <1>3, <1>4, <1>5, <1>6, <1>7, <1>8, <1>9, <1>10, <1>11 DEF Next

\* In every behaviour of the mapping, and for any sizes: until the collector
\* erases an open block, the types, the lists, the maps, the counts and the
\* bookkeeping of the write and of the collection in progress all hold.
THEOREM MappingInductive == Spec => []IInv
<1>1. Init => IInv
  BY InitInv DEF IInv
<1>2. IInv /\ [Next]_vars => IInv'
  BY NextInv
<1> QED
  BY <1>1, <1>2, PTL DEF Spec

\* Every block is on the list its state says and on no other, whatever the
\* order of the writes and collections.
THEOREM ListsAlwaysMatchBlocks == Spec => []ListsMatchBlocks
<1>1. IInv => ListsMatchBlocks
  BY DEF IInv, MappingInv, ListsMatchBlocks
<1> QED
  BY <1>1, MappingInductive, PTL

\* The two maps agree on all live data, which is in blocks in use; so no page
\* serves two slices.
THEOREM MapsAlwaysAgree == Spec => []MapsAgree
<1>1. IInv => MapsAgree
  BY DEF IInv, MappingInv, MapsAgree
<1> QED
  BY <1>1, MappingInductive, PTL

\* invalidSliceCnt counts the invalid pages of every block not being collected:
\* the test that lets the collector skip all copying is sound.
THEOREM InvalidCountAlwaysExact == Spec => []InvalidCountExact
<1>1. IInv => InvalidCountExact
  BY DEF IInv, MappingInv, InvalidCountExact
<1> QED
  BY <1>1, MappingInductive, PTL

\* The types of all the variables.
THEOREM TypesAlwaysCorrect == Spec => [](~curErased => TypeOK)
<1>1. IInv => (~curErased => TypeOK)
  BY DEF IInv, MappingInv
<1> QED
  BY <1>1, MappingInductive, PTL

\* Refinement: what the mapping shows of the flash is an array of slices, and
\* only the start of a write changes it.
LEMMA StoreInit == Init => Store!Init
<1> SUFFICES ASSUME Init PROVE StoreView = [l \in LSA |-> NONE]
  BY DEF Store!Init, Store!NoWrite, Init, NoRequest
<1> QED
  BY Sizes DEF Init, StoreView, AddrTransRead, NoRequest

\* A step that keeps the request and the contents of the mapped pages.
LEMMA StoreUnchanged ==
  ASSUME \A l \in LSA :
           (IF request'.lsa = l THEN request'.data
            ELSE IF logicalSliceMap'[l] = NONE THEN NONE ELSE flash'[logicalSliceMap'[l]])
         = (IF request.lsa = l THEN request.data
            ELSE IF logicalSliceMap[l] = NONE THEN NONE ELSE flash[logicalSliceMap[l]])
  PROVE  StoreView' = StoreView
BY DEF StoreView, AddrTransRead

\* The slice of a page just programmed holds what was written there.
LEMMA ProgramStores ==
  ASSUME TypeOK, LiveDataMapped, PagesErased, NEW d \in Die, NEW b \in Good[d],
         NEW l \in LSA, NEW x \in Data \cup {NONE}, currentPage[d][b] < P,
         Program(d, b, l, x)
  PROVE  /\ logicalSliceMap'[l] # NONE /\ flash'[logicalSliceMap'[l]] = x
         /\ \A k \in LSA : k # l => /\ logicalSliceMap'[k] = logicalSliceMap[k]
                                    /\ logicalSliceMap[k] # NONE =>
                                         flash'[logicalSliceMap[k]] = flash[logicalSliceMap[k]]
<1> PICK p : p = currentPage[d][b]
  OBVIOUS
<1> PICK vsa : vsa = Vorg2Vsa(d, b, p)
  OBVIOUS
<1>1. /\ vsa \in VSA /\ vsa = <<d, b, p>> /\ vsa # NONE
      /\ logicalSliceMap' = [logicalSliceMap EXCEPT ![l] = vsa]
      /\ flash' = [flash EXCEPT ![vsa] = x]
  BY Sizes DEF Program, Vorg2Vsa
<1>2. /\ logicalSliceMap'[l] = vsa /\ flash'[vsa] = x
      /\ \A k \in LSA : k # l => logicalSliceMap'[k] = logicalSliceMap[k]
      /\ \A v \in VSA : v # vsa => flash'[v] = flash[v]
  BY <1>1 DEF TypeOK
<1>3. virtualSliceMap[vsa] = NONE
  <2>1. b \in Block /\ p \in Nat
    <3>1. b \in Block
      BY Sizes
    <3> QED
      BY <3>1 DEF TypeOK
  <2>2. vsa[1] = d /\ vsa[2] = b /\ vsa[3] = p
    BY <1>1
  <2>3. vsa[3] >= currentPage[vsa[1]][vsa[2]]
    BY <2>1, <2>2
  <2> QED
    BY <1>1, <2>3 DEF PagesErased
<1>4. \A k \in LSA : logicalSliceMap[k] # NONE =>
        logicalSliceMap[k] \in VSA /\ logicalSliceMap[k] # vsa
  BY <1>3, Sizes DEF TypeOK, LiveDataMapped
<1> QED
  BY <1>1, <1>2, <1>4

LEMMA StoreStep ==
  ASSUME MappingInv, [Next]_vars, ~curErased'
  PROVE  [Store!Next]_<<StoreView, request>>
<1>1. TypeOK /\ LiveDataMapped /\ PagesErased
  BY DEF MappingInv
<1>2. CASE InitBlockMap \/ InitCurrentBlockOfDieMap \/ GcStart \/ GcSkipPage
  <2>1. UNCHANGED <<mapVars, request>>
    BY <1>2 DEF InitBlockMap, InitCurrentBlockOfDieMap, GcStart, GcSkipPage
  <2>2. StoreView' = StoreView
    BY <2>1, StoreUnchanged DEF mapVars
  <2> QED
    BY <2>1, <2>2
<1>3. ASSUME NEW l \in LSA, NEW x \in Data, AddrTransWrite(l, x)
      PROVE  Store!Next
  <2>1. /\ request' = [lsa |-> l, data |-> x] /\ flash' = flash
        /\ request = NoRequest /\ request.lsa = NONE
    BY <1>3 DEF AddrTransWrite, MappingInv, WriteInProgress, NoRequest
  <2>2. \A k \in LSA : k # l => logicalSliceMap'[k] = logicalSliceMap[k]
    BY <1>1, <1>3 DEF AddrTransWrite, InvalidateOldVsa, TypeOK
  <2>3. StoreView' = [StoreView EXCEPT ![l] = x]
    BY <2>1, <2>2, Sizes DEF StoreView, AddrTransRead
  <2> QED
    BY <2>1, <2>3 DEF Store!Next, Store!Write, Store!NoWrite, NoRequest
<1>4. ASSUME NEW d, d = Target, NEW b, b \in Good[d], currentPage[d][b] < P,
             pc \in {"find", "refind"}, FinishWrite(d, b)
      PROVE  Store!Next
  <2> PICK l \in LSA, x \in Data : l = request.lsa /\ x = request.data
    BY <1>4 DEF MappingInv, WriteInProgress
  <2>1. d \in Die /\ Program(d, b, l, x) /\ request' = NoRequest
    BY <1>1, <1>4 DEF FinishWrite, TypeOK, Target
  <2>2. /\ logicalSliceMap'[l] # NONE /\ flash'[logicalSliceMap'[l]] = x
        /\ \A k \in LSA : k # l => /\ logicalSliceMap'[k] = logicalSliceMap[k]
                                   /\ logicalSliceMap[k] # NONE =>
                                        flash'[logicalSliceMap[k]] = flash[logicalSliceMap[k]]
    BY <1>1, <1>4, <2>1, ProgramStores
  <2>3. \A k \in LSA : request'.lsa # k
    BY <2>1, Sizes DEF NoRequest
  <2>4. StoreView' = StoreView
    BY <2>2, <2>3, StoreUnchanged
  <2>5. request # NoRequest
    BY Sizes DEF NoRequest
  <2> QED
    BY <2>1, <2>4, <2>5 DEF Store!Next, Store!Done, Store!NoWrite, NoRequest
<1>5. CASE WriteToCurrentBlock
  <2>1. pc \in {"find", "refind"}
    BY <1>5 DEF WriteToCurrentBlock
  <2> QED
    BY <1>4, <1>5, <2>1, OpenBlock DEF WriteToCurrentBlock, OpenPage
<1>6. CASE WriteToFreeBlock
  <2> PICK d, b : d = Target /\ b = freeList[d].head
    OBVIOUS
  <2>1. /\ pc \in {"find", "refind"} /\ HasFreeBlockNormal(d) /\ GetFromFbList(d)
        /\ FinishWrite(d, b)
    BY <1>6 DEF WriteToFreeBlock
  <2>2. d \in Die
    BY <2>1, OpenBlock
  <2>3. b \in FreeBlocks(d)
    BY <1>1, <2>1, <2>2, ListsOfDie, GetFromFbListLists DEF MappingInv
  <2>4. b \in Good[d] /\ currentPage[d][b] < P
    BY <1>1, <2>2, <2>3, Sizes DEF FreeBlocks, PagesErased
  <2> QED
    BY <1>4, <2>1, <2>4
<1>7. CASE GcCopyPage
  <2> PICK d, v, b : /\ d = Target /\ v = victimBlockNo
                     /\ b = IF GcNeedsBlock THEN freeList[d].head ELSE currentBlock[d]
    OBVIOUS
  <2> PICK l, old, x : l = virtualSliceMap[VictimVsa] /\ old = VictimVsa /\ x = flash[old]
    OBVIOUS
  <2>1. /\ pc = "gc" /\ pageNo < P /\ VictimPageValid /\ request' = request
        /\ Program(d, b, l, x)
        /\ GcNeedsBlock => HasFreeBlockGc(d) /\ GetFromFbList(d)
        /\ ~GcNeedsBlock => OpenPage(d) < P
    BY <1>7 DEF GcCopyPage
  <2>2. /\ d \in Die /\ v \in Block /\ pageNo \in 0..P
        /\ logicalSliceMap[request.lsa] = NONE /\ request.lsa \in LSA
    BY <2>1, VictimFacts
  <2>3. old \in VSA /\ old # NONE
    BY <2>1, <2>2, Sizes DEF VictimVsa, VSA, Page
  <2>4. l \in LSA /\ logicalSliceMap[l] = old /\ x \in Data \cup {NONE} /\ l # request.lsa
    BY <1>1, <2>1, <2>2, <2>3 DEF VictimPageValid, TypeOK
  <2>5. b \in Good[d] /\ currentPage[d][b] < P
    <3>1. CASE GcNeedsBlock
      <4>1. b \in FreeBlocks(d)
        BY <1>1, <2>1, <2>2, <3>1, ListsOfDie, GetFromFbListLists DEF MappingInv
      <4> QED
        BY <1>1, <2>2, <4>1, Sizes DEF FreeBlocks, PagesErased
    <3>2. CASE ~GcNeedsBlock
      BY <2>1, <2>2, <3>2, OpenBlock DEF OpenPage
    <3> QED
      BY <3>1, <3>2
  <2>6. /\ logicalSliceMap'[l] # NONE /\ flash'[logicalSliceMap'[l]] = x
        /\ \A k \in LSA : k # l => /\ logicalSliceMap'[k] = logicalSliceMap[k]
                                   /\ logicalSliceMap[k] # NONE =>
                                        flash'[logicalSliceMap[k]] = flash[logicalSliceMap[k]]
    BY <1>1, <2>1, <2>2, <2>4, <2>5, ProgramStores
  <2>7. StoreView' = StoreView
    BY <2>1, <2>3, <2>4, <2>6, StoreUnchanged
  <2> QED
    BY <2>1, <2>7
<1>8. CASE EraseBlock
  <2> PICK d, v : d = Target /\ v = victimBlockNo
    OBVIOUS
  <2>1. /\ pc = "gc" /\ pageNo = P /\ request' = request
        /\ logicalSliceMap' = logicalSliceMap
        /\ flash' = [w \in VSA |-> IF w[1] = d /\ w[2] = v THEN NONE ELSE flash[w]]
    BY <1>8 DEF EraseBlock
  <2>2. \A p \in Page : ~PageValid(<<d, v, p>>)
    BY <2>1, VictimFacts, Sizes
  <2>3. \A k \in LSA : logicalSliceMap[k] # NONE =>
          flash'[logicalSliceMap[k]] = flash[logicalSliceMap[k]]
    <3> TAKE k \in LSA
    <3> HAVE logicalSliceMap[k] # NONE
    <3> PICK w : w = logicalSliceMap[k]
      OBVIOUS
    <3>1. w \in VSA /\ PageValid(w)
      BY <1>1, MappedPageValid
    <3>2. w = <<w[1], w[2], w[3]>> /\ w[3] \in Page
      BY <3>1, Sizes
    <3>3. ~(w[1] = d /\ w[2] = v)
      BY <2>2, <3>1, <3>2
    <3> QED
      BY <2>1, <3>1, <3>3
  <2> QED
    BY <2>1, <2>3, StoreUnchanged
<1>9. CASE UNCHANGED vars
  <2>1. UNCHANGED <<mapVars, request>>
    BY <1>9 DEF vars, ctlVars
  <2>2. StoreView' = StoreView
    BY <2>1, StoreUnchanged DEF mapVars
  <2> QED
    BY <2>1, <2>2
<1> QED
  BY <1>2, <1>3, <1>5, <1>6, <1>7, <1>8, <1>9 DEF Next

\* Live data survives every write and every collection: as long as no open block
\* is erased, the mapping implements an array of slices.
THEOREM MappingImplementsStore == Spec /\ [](~curErased) => ImplementsSliceStore
<1>1. Init => Store!Init
  BY StoreInit
<1>2. IInv /\ ~curErased /\ ~curErased' /\ [Next]_vars =>
        [Store!Next]_<<StoreView, request>>
  BY StoreStep DEF IInv
<1> QED
  BY <1>1, <1>2, MappingInductive, PTL DEF Spec, ImplementsSliceStore, Store!Spec

-----------------------------------------------------------------------------
\* The reserve.  The argument is a count of pages: what is left to copy of the
\* victim fits in what is left of the block the copies go to.

\* The pages of the victim the collector has still to copy.
PagesLeft == {p \in Page : p >= pageNo /\ PageValid(<<Target, victimBlockNo, p>>)}

\* The reserved block is missing only in the die being collected.
ReserveHeld ==
  /\ pc \in {"idle", "find", "refind"} => \A d \in Die : freeBlockCnt[d] >= 1
  /\ pc = "gc" => \A d \in Die : d # Target => freeBlockCnt[d] >= 1
  /\ pc = "initCurrentBlock" => \A d \in Die : d < initAt[1] => freeBlockCnt[d] >= 1

\* A collection has the reserved block before it, or has opened it and has
\* room in it for the pages it still has to copy.
CopiesFit ==
  pc = "gc" =>
    /\ Cardinality(PagesLeft) < P
    /\ \/ freeBlockCnt[Target] = 1 /\ GcNeedsBlock
       \/ /\ freeBlockCnt[Target] = 0 /\ victimBlockNo # currentBlock[Target]
          /\ OpenPage(Target) + Cardinality(PagesLeft) < P

\* After a collection the write that waited for it finds a page or a block.
RoomAfterCollection ==
  pc = "refind" => OpenPage(Target) < P \/ freeBlockCnt[Target] > 1

ReserveInv == ReserveHeld /\ CopiesFit /\ RoomAfterCollection

LEMMA Numbers ==
  ASSUME TypeOK
  PROVE  /\ \A d \in Die : freeBlockCnt[d] \in Int
         /\ \A d \in Die, b \in Block : currentPage[d][b] \in Nat
         /\ P \in Nat /\ P > 0 /\ Target \in Die /\ pageNo \in 0..P
<1>1. /\ freeBlockCnt \in [Die -> Int] /\ currentPage \in [Die -> [Block -> Nat]]
      /\ Target \in Die /\ pageNo \in 0..P
  BY DEF TypeOK, Target
<1>2. P \in Nat /\ P > 0
  BY Sizes
<1> QED
  BY <1>1, <1>2

\* There are at most P pages left to copy.
LEMMA PagesLeftBound ==
  /\ IsFiniteSet(PagesLeft) /\ Cardinality(PagesLeft) \in Nat
  /\ Cardinality(PagesLeft) <= P
<1>1. PagesLeft \in SUBSET Page
  BY DEF PagesLeft
<1> QED
  BY <1>1, Finiteness, FS_Subset

\* Fewer than P, when a page of the victim is not among them.
LEMMA FewerPages ==
  ASSUME NEW S \in SUBSET Page, NEW p \in Page, p \notin S
  PROVE  Cardinality(S) \in Nat /\ Cardinality(S) < P
<1>1. IsFiniteSet(S) /\ Cardinality(S) \in Nat /\ IsFiniteSet(Page) /\ Cardinality(Page) = P
  BY Finiteness
<1>2. Cardinality(S \cup {p}) = Cardinality(S) + 1
  BY <1>1, FS_AddElement
<1>3. S \cup {p} \in SUBSET Page
  OBVIOUS
<1>4. Cardinality(S \cup {p}) <= P
  BY <1>1, <1>3, FS_Subset
<1> QED
  BY <1>1, <1>2, <1>4, Sizes

LEMMA ReserveInit == Init => ReserveInv
BY DEF Init, ReserveInv, ReserveHeld, CopiesFit, RoomAfterCollection

\* A block taken is one fewer in its die.
LEMMA TakenOne ==
  ASSUME TypeOK, NEW d \in Die, GetFromFbList(d)
  PROVE  /\ freeBlockCnt'[d] = freeBlockCnt[d] - 1
         /\ \A e \in Die : e # d => freeBlockCnt'[e] = freeBlockCnt[e]
BY DEF TypeOK, GetFromFbList

LEMMA InitBlockMapReserve ==
  ASSUME MappingInv, ReserveInv, InitBlockMap PROVE ReserveInv'
<1>1. pc' \in {"initBlockMap", "initCurrentBlock"}
  BY DEF InitBlockMap
<1>2. pc' = "initCurrentBlock" => initAt' = <<0, 0>>
  <2>1. /\ initAt' = (IF initAt[2] < B - 1 THEN <<initAt[1], initAt[2] + 1>>
                     ELSE IF initAt[1] < D - 1 THEN <<initAt[1] + 1, 0>> ELSE <<0, 0>>)
        /\ pc = "initBlockMap"
        /\ pc' = (IF initAt[2] = B - 1 /\ initAt[1] = D - 1 THEN "initCurrentBlock" ELSE pc)
    BY DEF InitBlockMap
  <2> QED
    BY <2>1, Sizes
<1>3. \A d \in Die : ~(d < 0)
  BY Sizes DEF Die
<1>4. pc' = "initCurrentBlock" => \A d \in Die : ~(d < initAt'[1])
  BY <1>2, <1>3
<1> QED
  BY <1>1, <1>4 DEF ReserveInv, ReserveHeld, CopiesFit, RoomAfterCollection

LEMMA InitCurrentBlockOfDieMapReserve ==
  ASSUME MappingInv, ReserveInv, InitCurrentBlockOfDieMap PROVE ReserveInv'
<1> PICK d : d = initAt[1]
  OBVIOUS
<1>1. /\ TypeOK /\ d \in Die /\ pc = "initCurrentBlock" /\ freeBlockCnt[d] > 1 /\ GetFromFbList(d)
      /\ initAt' = (IF d < D - 1 THEN <<d + 1, 0>> ELSE <<0, 0>>)
      /\ pc' = (IF d < D - 1 THEN pc ELSE "idle")
  BY DEF InitCurrentBlockOfDieMap, MappingInv, TypeOK, HasFreeBlockNormal, RESERVED_FREE_BLOCK_COUNT
<1>2. \A e \in Die : e < d => freeBlockCnt[e] >= 1
  BY <1>1 DEF ReserveInv, ReserveHeld
<1>3. \A e \in Die : e <= d => freeBlockCnt'[e] >= 1
  BY <1>1, <1>2, TakenOne, Numbers, Sizes
<1>4. CASE d < D - 1
  <2>1. pc' = "initCurrentBlock" /\ initAt'[1] = d + 1
    BY <1>1, <1>4
  <2>2. \A e \in Die : e < d + 1 => e <= d
    BY <1>1, Sizes
  <2> QED
    BY <1>3, <2>1, <2>2 DEF ReserveInv, ReserveHeld, CopiesFit, RoomAfterCollection
<1>5. CASE ~(d < D - 1)
  <2>1. \A e \in Die : e <= d
    BY <1>1, <1>5, Sizes
  <2> QED
    BY <1>1, <1>3, <1>5, <2>1 DEF ReserveInv, ReserveHeld, CopiesFit, RoomAfterCollection
<1> QED
  BY <1>4, <1>5

LEMMA AddrTransWriteReserve ==
  ASSUME MappingInv, ReserveInv, NEW l \in LSA, NEW x \in Data, AddrTransWrite(l, x)
  PROVE  ReserveInv'
BY DEF AddrTransWrite, ReserveInv, ReserveHeld, CopiesFit, RoomAfterCollection

LEMMA WriteReserve ==
  ASSUME MappingInv, ReserveInv, WriteToCurrentBlock \/ WriteToFreeBlock
  PROVE  ReserveInv'
<1>1. pc \in {"find", "refind"} /\ pc' = "idle"
  BY DEF WriteToCurrentBlock, WriteToFreeBlock, FinishWrite
<1>2. TypeOK /\ Target \in Die /\ \A d \in Die : freeBlockCnt[d] >= 1 /\ freeBlockCnt[d] \in Int
  BY <1>1, Numbers DEF ReserveInv, ReserveHeld, MappingInv
<1>3. \A d \in Die : freeBlockCnt'[d] >= 1
  <2>1. CASE WriteToCurrentBlock
    BY <1>2, <2>1 DEF WriteToCurrentBlock
  <2>2. CASE WriteToFreeBlock
    <3>1. freeBlockCnt[Target] > 1 /\ GetFromFbList(Target)
      BY <2>2 DEF WriteToFreeBlock, HasFreeBlockNormal, RESERVED_FREE_BLOCK_COUNT
    <3>2. /\ freeBlockCnt'[Target] = freeBlockCnt[Target] - 1
          /\ \A e \in Die : e # Target => freeBlockCnt'[e] = freeBlockCnt[e]
      BY <1>2, <3>1, TakenOne
    <3> QED
      BY <1>2, <3>1, <3>2
  <2> QED
    BY <2>1, <2>2
<1> QED
  BY <1>1, <1>3 DEF ReserveInv, ReserveHeld, CopiesFit, RoomAfterCollection

\* The victim has an invalid page, or it would be on no victim list; so at
\* most P - 1 pages have to be copied.
LEMMA GcStartReserve ==
  ASSUME MappingInv, ReserveInv, GcStart PROVE ReserveInv'
<1> PICK d : d = Target
  OBVIOUS
<1>1. /\ TypeOK /\ d \in Die /\ pc = "find" /\ pc' = "gc" /\ OpenPage(d) = P /\ freeBlockCnt[d] <= 1
      /\ UNCHANGED <<mapVars, freeList, freeBlockCnt, blockVars, dieVars>>
  BY Numbers DEF GcStart, MappingInv, HasFreeBlockNormal, RESERVED_FREE_BLOCK_COUNT
<1> PICK n \in VictimCounts(d) : GetFromGcVictimList(d, n)
  BY DEF GcStart
<1> PICK v : v = victimBlockNo'
  OBVIOUS
<1>2. v \in VictimBlocks(d, n) /\ n \in 1..P
  <2>1. DieLists(d, links[d], freeList[d], freeBlockCnt[d], gcVictimList[d],
                 FreeBlocks(d), Victims(d))
    BY <1>1, ListsOfDie DEF MappingInv
  <2> QED
    BY <1>1, <2>1, GetFromGcVictimListLists DEF VictimCounts
<1>3. Cardinality(InvalidPages(d, v)) = n
  BY <1>1, <1>2 DEF VictimBlocks, MappingInv, InvalidSlicesCounted
<1> PICK p \in Page : ~PageValid(<<d, v, p>>)
  <2>1. n # 0
    BY <1>2, Sizes
  <2>2. InvalidPages(d, v) # {}
    BY <1>3, <2>1, FS_EmptySet
  <2> QED
    BY <2>2 DEF InvalidPages
<1>4. Target' = d /\ \A q \in Page : PageValid(<<d, v, q>>)' <=> PageValid(<<d, v, q>>)
  BY <1>1 DEF Target, dieVars, PageValid, mapVars
<1>5. PagesLeft' \in SUBSET Page /\ p \notin PagesLeft'
  BY <1>4 DEF PagesLeft
<1>6. Cardinality(PagesLeft') < P
  BY <1>5, FewerPages
<1>7. freeBlockCnt' = freeBlockCnt /\ \A e \in Die : freeBlockCnt[e] >= 1 /\ freeBlockCnt[e] \in Int
  BY <1>1, Numbers DEF ReserveInv, ReserveHeld
<1>8. freeBlockCnt'[d] = 1 /\ GcNeedsBlock'
  <2>1. OpenPage(d)' = OpenPage(d)
    BY <1>1 DEF OpenPage, blockVars, dieVars
  <2> QED
    BY <1>1, <1>4, <1>7, <2>1 DEF GcNeedsBlock
<1> QED
  BY <1>1, <1>4, <1>6, <1>7, <1>8 DEF ReserveInv, ReserveHeld, CopiesFit, RoomAfterCollection

\* A page skipped has no live data, so the pages left are the same.
LEMMA GcSkipPageReserve ==
  ASSUME MappingInv, ReserveInv, GcSkipPage PROVE ReserveInv'
<1>1. /\ TypeOK /\ pc = "gc" /\ ~VictimPageValid /\ pageNo' = pageNo + 1 /\ pageNo \in Nat
      /\ UNCHANGED <<mapVars, listVars, blockVars, dieVars, pc, initAt, victimBlockNo>>
  BY Numbers DEF GcSkipPage, MappingInv
<1>2. ~PageValid(<<Target, victimBlockNo, pageNo>>)
  BY <1>1 DEF VictimPageValid, PageValid, VictimVsa
<1>3. /\ Target' = Target
      /\ \A v \in VSA : PageValid(v)' <=> PageValid(v)
      /\ \A p \in Page : PageValid(<<Target, victimBlockNo, p>>)' <=>
                           PageValid(<<Target, victimBlockNo, p>>)
  BY <1>1 DEF Target, dieVars, PageValid, mapVars
<1>4. \A p \in Page : p >= pageNo <=> p >= pageNo + 1 \/ p = pageNo
  BY <1>1, Sizes
<1>5. PagesLeft' = PagesLeft
  BY <1>1, <1>2, <1>3, <1>4 DEF PagesLeft
<1>6. /\ freeBlockCnt' = freeBlockCnt /\ currentBlock' = currentBlock
      /\ currentPage' = currentPage
      /\ pc' = pc /\ victimBlockNo' = victimBlockNo
  BY <1>1 DEF listVars, dieVars, blockVars
<1>7. /\ GcNeedsBlock' <=> GcNeedsBlock
      /\ OpenPage(Target)' = OpenPage(Target)
  BY <1>3, <1>6 DEF GcNeedsBlock, OpenPage
<1> QED
  BY <1>1, <1>3, <1>5, <1>6, <1>7 DEF ReserveInv, ReserveHeld, CopiesFit, RoomAfterCollection

\* What a copy to block b does to the counts: b holds one page more and there
\* is at least one page less to copy.
LEMMA CopyCounts ==
  ASSUME MappingInv, pc = "gc", NEW d, d = Target, NEW v, v = victimBlockNo,
         pageNo < P, NEW l, l = virtualSliceMap[VictimVsa], VictimPageValid,
         NEW b \in Good[d], b # v, currentPage[d][b] < P, ~free'[d][b],
         Program(d, b, l, flash[VictimVsa]),
         \A e \in Die, c \in Block : free'[e][c] => free[e][c],
         pageNo' = pageNo + 1, UNCHANGED <<sliceAllocationTargetDie, victimBlockNo>>
  PROVE  /\ currentPage'[d][b] = currentPage[d][b] + 1
         /\ Cardinality(PagesLeft') \in Nat
         /\ Cardinality(PagesLeft') + 1 <= Cardinality(PagesLeft)
<1> DEFINE vsa == <<d, v, pageNo>>
<1>1. /\ TypeOK /\ LiveDataMapped /\ PagesErased
  BY DEF MappingInv
<1>2. /\ d \in Die /\ v \in Good[d] /\ v \in Block /\ pageNo \in 0..P /\ b \in Block
  BY VictimFacts, Sizes
<1>3. pageNo \in Page /\ pageNo \in Nat /\ vsa \in VSA /\ vsa = VictimVsa
  BY <1>2, Sizes DEF Page, VSA, VictimVsa
<1>4. /\ l \in LSA /\ logicalSliceMap[l] = vsa /\ flash[vsa] \in Data \cup {NONE}
      /\ PageValid(vsa)
  BY <1>1, <1>3 DEF VictimPageValid, TypeOK, PageValid
<1> PICK x \in Data \cup {NONE} : x = flash[vsa]
  BY <1>4
<1>5. Program(d, b, l, x)
  BY <1>3
<1> HIDE DEF vsa
<1>6. \A e \in Die, c \in Block, p \in Page :
           PageValid(<<e, c, p>>)' <=>
             \/ <<e, c, p>> = <<d, b, currentPage[d][b]>>
             \/ PageValid(<<e, c, p>>) /\ <<e, c, p>> # logicalSliceMap[l]
  <2>1. /\ d \in Die /\ b \in Good[d] /\ l \in LSA /\ x \in Data \cup {NONE}
        /\ currentPage[d][b] < P /\ ~free'[d][b]
        /\ \A e \in Die, c \in Block : free'[e][c] => free[e][c]
    BY <1>2, <1>4
  <2> QED
    BY ONLY <1>1, <1>5, <2>1, ProgramPages
<1>7. \A p \in Page : PageValid(<<d, v, p>>)' => PageValid(<<d, v, p>>) /\ p # pageNo
  BY <1>2, <1>4, <1>6 DEF vsa
<1>8. /\ Target' = d /\ victimBlockNo' = v
      /\ \A p \in Page : p >= pageNo + 1 => p >= pageNo
  BY <1>3, Sizes DEF Target
<1>9. PagesLeft' \in SUBSET (PagesLeft \ {pageNo}) /\ pageNo \in PagesLeft
  <2>1. PagesLeft' \in SUBSET (PagesLeft \ {pageNo})
    BY <1>7, <1>8 DEF PagesLeft
  <2>2. pageNo \in PagesLeft
    BY <1>3, <1>4 DEF PagesLeft, vsa
  <2> QED
    BY <2>1, <2>2
<1>10. Cardinality(PagesLeft \ {pageNo}) = Cardinality(PagesLeft) - 1
  BY <1>9, PagesLeftBound, FS_RemoveElement
<1>11. IsFiniteSet(PagesLeft \ {pageNo})
  BY PagesLeftBound, FS_RemoveElement
<1>12. /\ Cardinality(PagesLeft') <= Cardinality(PagesLeft \ {pageNo})
       /\ IsFiniteSet(PagesLeft')
  BY <1>9, <1>11, FS_Subset
<1>13. Cardinality(PagesLeft') \in Nat
  BY <1>12, FS_CardinalityType
<1>14. currentPage'[d][b] = currentPage[d][b] + 1
  BY <1>1, <1>2, <1>5 DEF Program, TypeOK
<1> QED
  BY <1>10, <1>12, <1>13, <1>14, PagesLeftBound

LEMMA GcCopyPageReserve ==
  ASSUME MappingInv, ReserveInv, GcCopyPage PROVE ReserveInv'
<1> PICK d, v, l, b : /\ d = Target /\ v = victimBlockNo /\ l = virtualSliceMap[VictimVsa]
                      /\ b = IF GcNeedsBlock THEN freeList[d].head ELSE currentBlock[d]
  OBVIOUS
<1>1. /\ pc = "gc" /\ pageNo < P /\ VictimPageValid /\ pageNo' = pageNo + 1
      /\ UNCHANGED <<gcVictimList, invalidSliceCnt, sliceAllocationTargetDie, pc, initAt,
                     request, victimBlockNo, curErased>>
      /\ TypeOK /\ PagesErased
  BY DEF GcCopyPage, MappingInv
<1>2. /\ d \in Die /\ v \in Good[d] /\ v \in Block /\ ~free[d][v]
      /\ currentBlock[d] \in Good[d] /\ currentBlock[d] \in Block /\ ~free[d][currentBlock[d]]
  BY <1>1, VictimFacts, OpenBlock
<1>3. \A e \in Die, c \in Block : Collecting(e, c)' <=> Collecting(e, c)
  BY <1>1 DEF Collecting, Target
<1>4. Target' = d /\ victimBlockNo' = v
  BY <1>1 DEF Target
<1>5. /\ \A e \in Die : e # d => freeBlockCnt[e] >= 1
      /\ Cardinality(PagesLeft) < P
      /\ \/ freeBlockCnt[d] = 1 /\ GcNeedsBlock
         \/ /\ freeBlockCnt[d] = 0 /\ v # currentBlock[d]
            /\ OpenPage(d) + Cardinality(PagesLeft) < P
  BY <1>1 DEF ReserveInv, ReserveHeld, CopiesFit
<1> PICK left \in Nat, op \in Nat : left = Cardinality(PagesLeft) /\ op = OpenPage(d)
  BY <1>1, <1>2, Numbers, PagesLeftBound DEF OpenPage
<1>6. P \in Nat /\ P > 0
  BY Sizes
<1>7. CASE GcNeedsBlock
  <2>1. /\ HasFreeBlockGc(d) /\ GetFromFbList(d) /\ b = freeList[d].head
        /\ currentBlock' = [currentBlock EXCEPT ![d] = b]
        /\ Program(d, b, l, flash[VictimVsa])
    BY <1>7 DEF GcCopyPage
  <2>2. /\ b \in Good[d] /\ free[d][b] /\ ~free'[d][b]
        /\ \A e \in Die, c \in Block : e # d \/ c # b => free'[e][c] = free[e][c]
    BY <1>1, <1>2, <1>3, <2>1, GetFromFbListInv
  <2>3. b \in Block /\ currentPage[d][b] = 0 /\ b # v
    BY <1>1, <1>2, <2>2, Sizes DEF PagesErased
  <2>4. \A e \in Die, c \in Block : free'[e][c] => free[e][c]
    BY <2>2
  <2>5. currentPage[d][b] < P
    BY <1>6, <2>3
  <2>6. /\ currentPage'[d][b] = currentPage[d][b] + 1
        /\ Cardinality(PagesLeft') \in Nat
        /\ Cardinality(PagesLeft') + 1 <= Cardinality(PagesLeft)
    BY <1>1, <2>1, <2>2, <2>3, <2>4, <2>5, CopyCounts
  <2>7. currentBlock'[d] = b /\ OpenPage(d)' = 1
    <3>1. currentBlock'[d] = b
      BY <1>1, <1>2, <2>1 DEF TypeOK
    <3>2. currentPage'[d][b] = 1
      BY <2>3, <2>6
    <3> QED
      BY <3>1, <3>2 DEF OpenPage
  <2>8. freeBlockCnt[d] = 1
    <3>1. v = currentBlock[d] \/ op = P
      BY <1>7 DEF GcNeedsBlock
    <3> QED
      BY <1>5, <1>6, <3>1
  <2>9. freeBlockCnt'[d] = 0 /\ \A e \in Die : e # d => freeBlockCnt'[e] >= 1
    BY <1>1, <1>2, <1>5, <2>1, <2>8, TakenOne
  <2>10. /\ Cardinality(PagesLeft') < P
         /\ OpenPage(d)' + Cardinality(PagesLeft') < P
    BY <1>5, <1>6, <2>6, <2>7
  <2> QED
    BY <1>1, <1>4, <2>3, <2>7, <2>9, <2>10 DEF ReserveInv, ReserveHeld, CopiesFit, RoomAfterCollection
<1>8. CASE ~GcNeedsBlock
  <2>1. /\ currentPage[d][b] < P /\ b = currentBlock[d] /\ b # v
        /\ Program(d, b, l, flash[VictimVsa])
        /\ UNCHANGED <<links, freeList, freeBlockCnt, free, currentBlock>>
    BY <1>8 DEF GcCopyPage, GcNeedsBlock, OpenPage
  <2>2. /\ b \in Good[d] /\ ~free'[d][b]
        /\ \A e \in Die, c \in Block : free'[e][c] => free[e][c]
    BY <1>2, <2>1
  <2>3. /\ currentPage'[d][b] = currentPage[d][b] + 1
        /\ Cardinality(PagesLeft') \in Nat
        /\ Cardinality(PagesLeft') + 1 <= Cardinality(PagesLeft)
    BY <1>1, <2>1, <2>2, CopyCounts
  <2>4. currentBlock'[d] = b /\ OpenPage(d)' = op + 1
    BY <2>1, <2>3 DEF OpenPage
  <2>5. freeBlockCnt'[d] = 0 /\ op + left < P /\ \A e \in Die : e # d => freeBlockCnt'[e] >= 1
    BY <1>5, <1>8, <2>1
  <2>6. /\ Cardinality(PagesLeft') < P
        /\ OpenPage(d)' + Cardinality(PagesLeft') < P
    BY <1>5, <1>6, <2>3, <2>4, <2>5
  <2> QED
    BY <1>1, <1>4, <2>1, <2>4, <2>5, <2>6 DEF ReserveInv, ReserveHeld, CopiesFit, RoomAfterCollection
<1> QED
  BY <1>7, <1>8

\* The block erased is the reserved block of its die from now on.
LEMMA EraseBlockReserve ==
  ASSUME MappingInv, ReserveInv, EraseBlock, ~curErased' PROVE ReserveInv'
<1> PICK d, v : d = Target /\ v = victimBlockNo
  OBVIOUS
<1>1. /\ pc = "gc" /\ pc' = "refind" /\ TypeOK /\ v # currentBlock[d]
      /\ currentPage' = [currentPage EXCEPT ![d][v] = 0]
      /\ freeBlockCnt' = [freeBlockCnt EXCEPT ![d] = @ + 1]
      /\ UNCHANGED dieVars
  BY DEF EraseBlock, PutToFbList, MappingInv
<1>2. /\ d \in Die /\ v \in Block
      /\ currentBlock[d] \in Good[d] /\ currentBlock[d] \in Block
  BY <1>1, VictimFacts, OpenBlock
<1>3. Target' = d /\ OpenPage(d)' = OpenPage(d)
  BY <1>1, <1>2 DEF Target, OpenPage, dieVars, TypeOK
<1>4. /\ freeBlockCnt'[d] = freeBlockCnt[d] + 1 /\ freeBlockCnt[d] \in Int
      /\ \A e \in Die : e # d => freeBlockCnt'[e] = freeBlockCnt[e]
  BY <1>1, <1>2 DEF TypeOK
<1>5. /\ \A e \in Die : e # d => freeBlockCnt[e] >= 1
      /\ \/ freeBlockCnt[d] = 1
         \/ freeBlockCnt[d] = 0 /\ OpenPage(d) + Cardinality(PagesLeft) < P
  BY <1>1 DEF ReserveInv, ReserveHeld, CopiesFit
<1>6. freeBlockCnt'[d] > 1 \/ OpenPage(d) < P
  <2>1. OpenPage(d) \in Nat /\ P \in Nat /\ Cardinality(PagesLeft) \in Nat
    BY <1>1, <1>2, Numbers, PagesLeftBound DEF OpenPage
  <2> QED
    BY <1>4, <1>5, <2>1
<1>7. \A e \in Die : freeBlockCnt'[e] >= 1
  BY <1>4, <1>5
<1> QED
  BY <1>1, <1>3, <1>6, <1>7 DEF ReserveInv, ReserveHeld, CopiesFit, RoomAfterCollection

LEMMA StutterReserve ==
  ASSUME ReserveInv, UNCHANGED vars PROVE ReserveInv'
BY DEF vars, mapVars, listVars, blockVars, dieVars, ctlVars, ReserveInv, ReserveHeld,
       CopiesFit, RoomAfterCollection, PagesLeft, PageValid, GcNeedsBlock, OpenPage, Target

\* The history variable is never reset.
LEMMA ErasedStays == [Next]_vars /\ curErased => curErased'
BY DEF Next, vars, InitBlockMap, InitCurrentBlockOfDieMap, AddrTransWrite,
       WriteToCurrentBlock, WriteToFreeBlock, FinishWrite, GcStart, GcSkipPage,
       GcCopyPage, EraseBlock

CountInv == ~curErased => MappingInv /\ ReserveInv

LEMMA ReserveNext ==
  ASSUME MappingInv, ReserveInv, [Next]_vars, ~curErased' PROVE ReserveInv'
<1>1. CASE InitBlockMap
  BY <1>1, InitBlockMapReserve
<1>2. CASE InitCurrentBlockOfDieMap
  BY <1>2, InitCurrentBlockOfDieMapReserve
<1>3. CASE \E l \in LSA, x \in Data : AddrTransWrite(l, x)
  BY <1>3, AddrTransWriteReserve
<1>4. CASE WriteToCurrentBlock \/ WriteToFreeBlock
  BY <1>4, WriteReserve
<1>5. CASE GcStart
  BY <1>5, GcStartReserve
<1>6. CASE GcSkipPage
  BY <1>6, GcSkipPageReserve
<1>7. CASE GcCopyPage
  BY <1>7, GcCopyPageReserve
<1>8. CASE EraseBlock
  BY <1>8, EraseBlockReserve
<1>9. CASE UNCHANGED vars
  BY <1>9, StutterReserve
<1> QED
  BY <1>1, <1>2, <1>3, <1>4, <1>5, <1>6, <1>7, <1>8, <1>9 DEF Next

\* Until the collector erases an open block, the reserved block of a die is
\* missing only while that die is collected, and the pages still to copy fit.
THEOREM ReserveInductive == Spec => []CountInv
<1>1. Init => CountInv
  BY InitInv, ReserveInit DEF CountInv
<1>2. CountInv /\ [Next]_vars => CountInv'
  <2> SUFFICES ASSUME CountInv, [Next]_vars, ~curErased' PROVE MappingInv' /\ ReserveInv'
    BY DEF CountInv
  <2>1. MappingInv /\ ReserveInv
    BY ErasedStays DEF CountInv
  <2>2. MappingInv'
    BY <2>1, NextInv DEF IInv
  <2> QED
    BY <2>1, <2>2, ReserveNext
<1> QED
  BY <1>1, <1>2, PTL DEF Spec

\* The open block's counter never passes its end.
LEMMA OpenPageBound ==
  ASSUME MappingInv, pc \notin {"initBlockMap", "initCurrentBlock"}
  PROVE  Target \in Die /\ OpenPage(Target) \in Nat /\ OpenPage(Target) <= P
<1>1. TypeOK /\ PagesErased
  BY DEF MappingInv
<1>2. Target \in Die /\ currentBlock[Target] \in Block
  BY OpenBlock
<1> QED
  BY <1>1, <1>2, Numbers DEF PagesErased, OpenPage

\* The asserts of FindFreeVirtualSlice and FindFreeVirtualSliceForGc never
\* fire: one reserved block per die is room enough for every collection and
\* for the write that waited for it.
THEOREM ReserveAlwaysSuffices == Spec => []ReserveSuffices
<1>1. CountInv => ReserveSuffices
  <2> SUFFICES ASSUME MappingInv, ReserveInv
               PROVE  ~CurrentPageManagementFail /\ ~NoAvailableBlock
    BY DEF CountInv, ReserveSuffices
  <2>1. ~CurrentPageManagementFail
    <3>1. pc \in {"find", "refind", "gc"} => OpenPage(Target) \in Nat /\ OpenPage(Target) <= P
      BY OpenPageBound
    <3> QED
      BY <3>1, Sizes DEF CurrentPageManagementFail
  <2>2. ~(pc = "refind" /\ OpenPage(Target) = P /\ ~HasFreeBlockNormal(Target))
    <3>1. pc = "refind" => OpenPage(Target) < P \/ freeBlockCnt[Target] > 1
      BY DEF ReserveInv, RoomAfterCollection
    <3> QED
      BY <3>1, Sizes DEF HasFreeBlockNormal, RESERVED_FREE_BLOCK_COUNT
  <2>3. ASSUME pc = "gc", GcNeedsBlock PROVE HasFreeBlockGc(Target)
    <3>1. Target \in Die /\ OpenPage(Target) \in Nat /\ P \in Nat
      BY <2>3, OpenPageBound, Sizes
    <3>2. freeBlockCnt[Target] = 1
      <4>1. victimBlockNo = currentBlock[Target] \/ OpenPage(Target) = P
        BY <2>3 DEF GcNeedsBlock
      <4>2. \/ freeBlockCnt[Target] = 1
            \/ /\ victimBlockNo # currentBlock[Target]
               /\ OpenPage(Target) + Cardinality(PagesLeft) < P
        BY <2>3 DEF ReserveInv, CopiesFit
      <4>3. OpenPage(Target) + Cardinality(PagesLeft) < P => OpenPage(Target) # P
        BY <3>1, PagesLeftBound
      <4> QED
        BY <4>1, <4>2, <4>3
    <3>3. /\ IsList(freeList[Target], links[Target], FreeBlocks(Target))
          /\ Cardinality(FreeBlocks(Target)) = 1
          /\ IsFiniteSet(FreeBlocks(Target)) /\ NONE \notin FreeBlocks(Target)
      BY <3>1, <3>2, ListMembers DEF MappingInv, BlocksOnTheirLists
    <3>4. FreeBlocks(Target) # {}
      BY <3>3, FS_EmptySet
    <3> QED
      BY <3>3, <3>4, IsListEnds DEF HasFreeBlockGc
  <2> QED
    BY <2>1, <2>2, <2>3 DEF NoAvailableBlock
<1> QED
  BY <1>1, ReserveInductive, PTL

\* Between collections every die has its reserved block.
THEOREM ReserveAlwaysRestored == Spec => []ReserveRestored
<1>1. CountInv => ReserveRestored
  BY DEF CountInv, ReserveInv, ReserveHeld, ReserveRestored, RESERVED_FREE_BLOCK_COUNT
<1> QED
  BY <1>1, ReserveInductive, PTL

-----------------------------------------------------------------------------
\* The pages that hold something are those below currentPage, and the blocks
\* that are neither free nor open nor being collected are full.

FlashInv == \A v \in VSA : flash[v] # NONE <=> v[3] < currentPage[v[1]][v[2]]

FullInv ==
  /\ pc \notin {"initBlockMap", "initCurrentBlock"} =>
       \A d \in Die : \A b \in Good[d] :
         ~free[d][b] /\ b # currentBlock[d] /\ ~Collecting(d, b) => currentPage[d][b] = P
  /\ pc = "initBlockMap" =>
       \A d \in Die : \A b \in Good[d] :
         d < initAt[1] \/ (d = initAt[1] /\ b < initAt[2]) => free[d][b]
  /\ pc = "initCurrentBlock" =>
       \A d \in Die : \A b \in Good[d] : d >= initAt[1] \/ b # currentBlock[d] => free[d][b]

\* What the property ProgramOncePerErase says of one step.
ProgramsErasedPages ==
  \A v \in VSA : flash'[v] # flash[v] /\ flash'[v] # NONE =>
    /\ flash[v] = NONE
    /\ \A p \in 0..(v[3] - 1) : flash[<<v[1], v[2], p>>] # NONE

\* Program writes the first page that holds nothing.
LEMMA ProgramFlash ==
  ASSUME TypeOK, FlashInv, NEW d \in Die, NEW b \in Good[d], currentPage[d][b] < P,
         NEW l, NEW x, x # NONE, Program(d, b, l, x)
  PROVE  FlashInv' /\ ProgramsErasedPages
<1> PICK p \in Page : p = currentPage[d][b]
  <2>1. b \in Block /\ P \in Nat
    BY Sizes
  <2>2. currentPage[d][b] \in Nat
    BY <2>1 DEF TypeOK
  <2> QED
    BY <2>1, <2>2 DEF Page
<1> DEFINE vsa == <<d, b, p>>
<1>1. /\ b \in Block /\ vsa \in VSA /\ p \in Nat /\ p < P
      /\ currentPage' = [currentPage EXCEPT ![d] = [currentPage[d] EXCEPT ![b] = p + 1]]
      /\ flash' = [flash EXCEPT ![vsa] = x]
  <2>1. b \in Block /\ p \in Nat /\ p < P /\ vsa \in VSA
    BY Sizes DEF VSA
  <2>2. Vorg2Vsa(d, b, currentPage[d][b]) = vsa
    BY <2>1 DEF Vorg2Vsa
  <2>3. currentPage' = [currentPage EXCEPT ![d] = [currentPage[d] EXCEPT ![b] = p + 1]]
    BY DEF Program
  <2> HIDE DEF vsa
  <2> QED
    BY <2>1, <2>2, <2>3 DEF Program
<1>2. /\ \A v \in VSA : v # vsa => flash'[v] = flash[v]
      /\ flash'[vsa] = x /\ flash[vsa] = NONE
      /\ \A q \in 0..(p - 1) : flash[<<d, b, q>>] # NONE
  <2>1. /\ \A v \in VSA : v # vsa => flash'[v] = flash[v]
        /\ flash'[vsa] = x
    BY <1>1 DEF TypeOK
  <2>2. flash[vsa] = NONE
    BY <1>1 DEF FlashInv
  <2>3. ASSUME NEW q \in 0..(p - 1) PROVE flash[<<d, b, q>>] # NONE
    <3>1. q \in Page /\ q < p
      BY <1>1, Sizes DEF Page
    <3>2. <<d, b, q>> \in VSA
      BY <1>1, <3>1 DEF VSA
    <3> QED
      BY <3>1, <3>2 DEF FlashInv
  <2> QED
    BY <2>1, <2>2, <2>3
<1>3. ProgramsErasedPages
  BY <1>2 DEF ProgramsErasedPages
<1>4. ASSUME NEW v \in VSA PROVE flash'[v] # NONE <=> v[3] < currentPage'[v[1]][v[2]]
  <2>1. v[1] \in Die /\ v[2] \in Block /\ v[3] \in Nat /\ v = <<v[1], v[2], v[3]>>
    BY Sizes
  <2>2. currentPage'[v[1]][v[2]] =
          IF v[1] = d /\ v[2] = b THEN p + 1 ELSE currentPage[v[1]][v[2]]
    BY <1>1, <2>1 DEF TypeOK
  <2>3. flash[v] # NONE <=> v[3] < currentPage[v[1]][v[2]]
    BY DEF FlashInv
  <2>4. CASE v = vsa
    BY <1>1, <1>2, <2>2, <2>4
  <2>5. CASE v # vsa /\ v[1] = d /\ v[2] = b
    <3>1. v[3] # p /\ flash'[v] = flash[v]
      BY <1>2, <2>1, <2>5
    <3> QED
      BY <1>1, <2>1, <2>2, <2>3, <2>5, <3>1
  <2>6. CASE v # vsa /\ ~(v[1] = d /\ v[2] = b)
    BY <1>2, <2>2, <2>3, <2>6
  <2> QED
    BY <2>4, <2>5, <2>6
<1> QED
  BY <1>3, <1>4 DEF FlashInv

\* The actions that program a page: block b has room, and what is written is
\* something; before and after, b is the open block.
LEMMA ProgramCases ==
  ASSUME MappingInv, FlashInv, WriteToCurrentBlock \/ WriteToFreeBlock \/ GcCopyPage
  PROVE  \E b \in Good[Target], l \in LSA, x \in Data :
           /\ currentPage[Target][b] < P /\ Program(Target, b, l, x)
<1>1. TypeOK /\ PagesErased /\ WriteInProgress
  BY DEF MappingInv
<1>2. CASE WriteToCurrentBlock
  <2>1. /\ pc \in {"find", "refind"} /\ OpenPage(Target) < P
        /\ Program(Target, currentBlock[Target], request.lsa, request.data)
    BY <1>2 DEF WriteToCurrentBlock, FinishWrite
  <2>2. /\ currentBlock[Target] \in Good[Target]
        /\ request.lsa \in LSA /\ request.data \in Data
    BY <1>1, <2>1, OpenBlock DEF WriteInProgress
  <2> QED
    BY <2>1, <2>2 DEF OpenPage
<1>3. CASE WriteToFreeBlock
  <2>1. /\ pc \in {"find", "refind"} /\ HasFreeBlockNormal(Target) /\ GetFromFbList(Target)
        /\ Program(Target, freeList[Target].head, request.lsa, request.data)
    BY <1>3 DEF WriteToFreeBlock, FinishWrite
  <2>2. freeList[Target].head \in FreeBlocks(Target)
    <3>1. DieLists(Target, links[Target], freeList[Target], freeBlockCnt[Target],
                   gcVictimList[Target], FreeBlocks(Target), Victims(Target))
      BY <1>1, Numbers, ListsOfDie DEF MappingInv
    <3> QED
      BY <1>1, <2>1, <3>1, Numbers, GetFromFbListLists
  <2>3. request.lsa \in LSA /\ request.data \in Data
    BY <1>1, <2>1 DEF WriteInProgress
  <2>4. /\ freeList[Target].head \in Good[Target]
        /\ currentPage[Target][freeList[Target].head] < P
    BY <1>1, <2>2, Numbers, Sizes DEF FreeBlocks, PagesErased
  <2> QED
    BY ONLY <2>1, <2>3, <2>4
<1>4. CASE GcCopyPage
  <2> PICK b : /\ b = (IF GcNeedsBlock THEN freeList[Target].head ELSE currentBlock[Target])
               /\ Program(Target, b, virtualSliceMap[VictimVsa], flash[VictimVsa])
    BY <1>4 DEF GcCopyPage
  <2>1. pc = "gc" /\ pageNo < P /\ VictimPageValid
    BY <1>4 DEF GcCopyPage
  <2>2. flash[VictimVsa] \in Data /\ virtualSliceMap[VictimVsa] \in LSA
    <3>1. pageNo \in Page /\ VictimVsa \in VSA
      BY <2>1, VictimFacts, Sizes DEF Page, VSA, VictimVsa
    <3>2. ~(VictimVsa[3] >= currentPage[VictimVsa[1]][VictimVsa[2]])
      BY <1>1, <2>1, <3>1 DEF VictimPageValid, PagesErased
    <3>3. VictimVsa[3] \in Nat /\ currentPage[VictimVsa[1]][VictimVsa[2]] \in Nat
      BY <1>1, <3>1, Numbers, Sizes
    <3>4. flash[VictimVsa] # NONE
      BY <3>1, <3>2, <3>3 DEF FlashInv
    <3> QED
      BY <1>1, <2>1, <3>1, <3>4 DEF VictimPageValid, TypeOK
  <2>3. b \in Good[Target] /\ currentPage[Target][b] < P
    <3>1. CASE GcNeedsBlock
      <4>1. HasFreeBlockGc(Target) /\ GetFromFbList(Target)
        BY <1>4, <3>1 DEF GcCopyPage
      <4>2. DieLists(Target, links[Target], freeList[Target], freeBlockCnt[Target],
                     gcVictimList[Target], FreeBlocks(Target), Victims(Target))
        BY <1>1, Numbers, ListsOfDie DEF MappingInv
      <4>3. b \in FreeBlocks(Target)
        BY <1>1, <3>1, <4>1, <4>2, Numbers, GetFromFbListLists
      <4>4. currentPage[Target][b] = 0 /\ b \in Good[Target]
        BY <1>1, <4>3, Numbers, Sizes DEF FreeBlocks, PagesErased
      <4> QED
        BY <4>4, Sizes
    <3>2. CASE ~GcNeedsBlock
      BY <1>4, <2>1, <3>2, OpenBlock DEF GcCopyPage, OpenPage
    <3> QED
      BY <3>1, <3>2
  <2> QED
    BY <2>2, <2>3
<1> QED
  BY <1>2, <1>3, <1>4

LEMMA FlashNext ==
  ASSUME MappingInv, FlashInv, [Next]_vars PROVE FlashInv' /\ ProgramsErasedPages
<1>1. CASE WriteToCurrentBlock \/ WriteToFreeBlock \/ GcCopyPage
  <2>1. PICK b \in Good[Target], l \in LSA, x \in Data :
          /\ currentPage[Target][b] < P /\ Program(Target, b, l, x)
    BY <1>1, ProgramCases
  <2>2. TypeOK /\ Target \in Die /\ x # NONE
    BY Numbers, Sizes DEF MappingInv
  <2> QED
    BY <2>1, <2>2, ProgramFlash
<1>2. CASE EraseBlock
  <2> PICK d, b : d = Target /\ b = victimBlockNo
    OBVIOUS
  <2>1. /\ currentPage' = [currentPage EXCEPT ![d][b] = 0]
        /\ flash' = [v \in VSA |-> IF v[1] = d /\ v[2] = b THEN NONE ELSE flash[v]]
        /\ TypeOK
    BY <1>2 DEF EraseBlock, MappingInv
  <2>2. \A v \in VSA : /\ v[1] \in Die /\ v[2] \in Block /\ v[3] \in Nat
                       /\ ~(v[3] < 0)
    BY Sizes
  <2>3. \A v \in VSA : currentPage'[v[1]][v[2]] =
          IF v[1] = d /\ v[2] = b THEN 0 ELSE currentPage[v[1]][v[2]]
    BY <2>1, <2>2 DEF TypeOK
  <2> QED
    BY <2>1, <2>2, <2>3 DEF FlashInv, ProgramsErasedPages
<1>3. CASE flash' = flash /\ currentPage' = currentPage
  BY <1>3 DEF FlashInv, ProgramsErasedPages
<1>4. \/ flash' = flash /\ currentPage' = currentPage
      \/ WriteToCurrentBlock \/ WriteToFreeBlock \/ GcCopyPage \/ EraseBlock
  BY DEF Next, vars, mapVars, blockVars, InitBlockMap, InitCurrentBlockOfDieMap,
         AddrTransWrite, GcStart, GcSkipPage
<1> QED
  BY <1>1, <1>2, <1>3, <1>4

PageInv == ~curErased => MappingInv /\ FlashInv

\* Until the collector erases an open block, the pages that hold something are
\* exactly those below currentPage, in every block.
THEOREM FlashInductive == Spec => []PageInv
<1>1. Init => PageInv
  <2> SUFFICES ASSUME Init PROVE FlashInv
    BY InitInv DEF PageInv
  <2>1. \A v \in VSA : v[1] \in Die /\ v[2] \in Block /\ v[3] \in Nat
    BY Sizes
  <2>2. /\ flash = [v \in VSA |-> NONE]
        /\ currentPage = [d \in Die |-> [b \in Block |-> 0]]
    BY DEF Init
  <2> QED
    BY <2>1, <2>2 DEF FlashInv
<1>2. PageInv /\ [Next]_vars => PageInv'
  <2> SUFFICES ASSUME PageInv, [Next]_vars, ~curErased' PROVE MappingInv' /\ FlashInv'
    BY DEF PageInv
  <2>1. MappingInv /\ FlashInv
    BY ErasedStays DEF PageInv
  <2>2. MappingInv'
    BY <2>1, NextInv DEF IInv
  <2> QED
    BY <2>1, <2>2, FlashNext
<1> QED
  BY <1>1, <1>2, PTL DEF Spec

\* No page is programmed twice between two erasures of its block, and the
\* pages of a block are programmed in order: by the host's writes, by the
\* collector's copies, and in the block a collection opens.
THEOREM AlwaysProgramsErasedPages == Spec => ProgramOncePerErase
<1>1. PageInv /\ [Next]_vars => [~curErased => ProgramsErasedPages]_vars
  BY FlashNext DEF PageInv
<1>2. [~curErased => ProgramsErasedPages]_vars <=>
      [~curErased =>
       \A v \in VSA : flash'[v] # flash[v] /\ flash'[v] # NONE =>
         /\ flash[v] = NONE
         /\ \A p \in 0..(v[3] - 1) : flash[<<v[1], v[2], p>>] # NONE]_vars
  BY DEF ProgramsErasedPages
<1> QED
  BY <1>1, <1>2, FlashInductive, PTL DEF Spec, ProgramOncePerErase

\* Outside of boot, what FullInv says of the block b of die d.
Full(d, b) == ~free[d][b] /\ b # currentBlock[d] /\ ~Collecting(d, b) => currentPage[d][b] = P

LEMMA InitBlockMapFull ==
  ASSUME MappingInv, FullInv, InitBlockMap PROVE FullInv'
<1> PICK d, b : d = initAt[1] /\ b = initAt[2]
  OBVIOUS
<1>1. /\ pc = "initBlockMap" /\ d \in Die /\ b \in Block
      /\ free' = [free EXCEPT ![d][b] = TRUE] /\ free \in [Die -> [Block -> BOOLEAN]]
      /\ initAt' = (IF b < B - 1 THEN <<d, b + 1>>
                    ELSE IF d < D - 1 THEN <<d + 1, 0>> ELSE <<0, 0>>)
      /\ pc' = (IF b = B - 1 /\ d = D - 1 THEN "initCurrentBlock" ELSE pc)
  BY DEF InitBlockMap, MappingInv, TypeOK
<1>2. \A e \in Die : \A c \in Good[e] : e < d \/ (e = d /\ c < b) => free[e][c]
  BY <1>1 DEF FullInv
<1>3. \A e \in Die : \A c \in Good[e] : e < d \/ (e = d /\ c <= b) => free'[e][c]
  <2> TAKE e \in Die
  <2> TAKE c \in Good[e]
  <2> HAVE e < d \/ (e = d /\ c <= b)
  <2>1. c \in Block /\ e \in Nat /\ d \in Nat /\ c \in Nat /\ b \in Nat
    BY <1>1, Sizes
  <2>2. CASE e = d /\ c = b
    BY <1>1, <2>2
  <2>3. CASE ~(e = d /\ c = b)
    <3>1. free[e][c]
      <4>1. e < d \/ (e = d /\ c < b)
        BY <2>1, <2>3
      <4> QED
        BY <1>2, <4>1
    <3> QED
      BY <1>1, <2>1, <2>3, <3>1
  <2> QED
    BY <2>2, <2>3
<1>4. \A e \in Die : \A c \in Good[e] : e \in Nat /\ e < D /\ c \in Nat /\ c < B
  BY Sizes
<1>5. CASE b < B - 1
  <2>1. pc' = "initBlockMap" /\ initAt'[1] = d /\ initAt'[2] = b + 1
    BY <1>1, <1>5, Sizes
  <2>2. \A e \in Die : \A c \in Good[e] : c < b + 1 => c <= b
    BY <1>1, <1>4, Sizes
  <2> QED
    BY <1>3, <2>1, <2>2 DEF FullInv
<1>6. CASE b = B - 1 /\ d < D - 1
  <2>1. pc' = "initBlockMap" /\ initAt'[1] = d + 1 /\ initAt'[2] = 0
    BY <1>1, <1>6, Sizes
  <2>2. \A e \in Die : \A c \in Good[e] :
          e < d + 1 \/ (e = d + 1 /\ c < 0) => e < d \/ (e = d /\ c <= b)
    <3> TAKE e \in Die
    <3> TAKE c \in Good[e]
    <3>1. e \in Nat /\ c \in Nat /\ c < B /\ d \in Nat /\ B \in Nat
      BY <1>1, <1>4, Sizes
    <3> QED
      BY <1>6, <3>1
  <2> QED
    BY <1>3, <2>1, <2>2 DEF FullInv
<1>7. CASE b = B - 1 /\ d = D - 1
  <2>1. pc' = "initCurrentBlock"
    BY <1>1, <1>7
  <2>2. \A e \in Die : \A c \in Good[e] : e < d \/ (e = d /\ c <= b)
    BY <1>4, <1>7, Sizes
  <2> QED
    BY <1>3, <2>1, <2>2 DEF FullInv
<1> QED
  BY <1>1, <1>5, <1>6, <1>7, Sizes

LEMMA InitCurrentBlockOfDieMapFull ==
  ASSUME MappingInv, FullInv, InitCurrentBlockOfDieMap PROVE FullInv'
<1> PICK d : d = initAt[1]
  OBVIOUS
<1> PICK h : h = freeList[d].head
  OBVIOUS
<1>1. /\ d \in Die /\ pc = "initCurrentBlock" /\ TypeOK
      /\ free' = [free EXCEPT ![d][h] = FALSE]
      /\ currentBlock' = [currentBlock EXCEPT ![d] = h]
      /\ initAt' = (IF d < D - 1 THEN <<d + 1, 0>> ELSE <<0, 0>>)
      /\ pc' = (IF d < D - 1 THEN pc ELSE "idle")
  BY DEF InitCurrentBlockOfDieMap, MappingInv, TypeOK, GetFromFbList
<1>2. \A e \in Die : \A c \in Good[e] : e >= d \/ c # currentBlock[e] => free[e][c]
  BY <1>1 DEF FullInv
<1>3. \A e \in Die : \A c \in Good[e] : e > d \/ c # currentBlock'[e] => free'[e][c]
  <2> TAKE e \in Die
  <2> TAKE c \in Good[e]
  <2> HAVE e > d \/ c # currentBlock'[e]
  <2>1. e \in Nat /\ d \in Nat /\ c \in Block
    BY <1>1, Sizes
  <2>2. CASE e = d
    <3>1. c # h
      BY <1>1, <2>1, <2>2 DEF TypeOK
    <3>2. free[e][c]
      BY <1>2, <2>1, <2>2
    <3> QED
      BY <1>1, <2>1, <2>2, <3>1, <3>2 DEF TypeOK
  <2>3. CASE e # d
    <3>1. currentBlock'[e] = currentBlock[e] /\ free'[e] = free[e]
      BY <1>1, <2>3 DEF TypeOK
    <3>2. e > d => e >= d
      BY <2>1
    <3> QED
      BY <1>2, <3>1, <3>2
  <2> QED
    BY <2>2, <2>3
<1>4. CASE d < D - 1
  <2>1. pc' = "initCurrentBlock" /\ initAt'[1] = d + 1
    BY <1>1, <1>4
  <2>2. \A e \in Die : e >= d + 1 => e > d
    BY <1>1, Sizes
  <2> QED
    BY <1>3, <2>1, <2>2 DEF FullInv
<1>5. CASE ~(d < D - 1)
  <2>1. pc' = "idle"
    BY <1>1, <1>5
  <2> QED
    BY <1>3, <2>1 DEF FullInv
<1> QED
  BY <1>4, <1>5

\* A step after boot: it keeps FullInv if it keeps Full of every block.
LEMMA FullStep ==
  ASSUME FullInv, pc \notin {"initBlockMap", "initCurrentBlock"},
         pc' \notin {"initBlockMap", "initCurrentBlock"},
         \A d \in Die : \A b \in Good[d] : Full(d, b) => Full(d, b)'
  PROVE  FullInv'
BY DEF FullInv, Full

LEMMA QuietFull ==
  ASSUME MappingInv, FullInv, (\E l \in LSA, x \in Data : AddrTransWrite(l, x)) \/ GcStart \/ GcSkipPage
  PROVE  FullInv'
<1>1. /\ pc \in {"idle", "find", "gc"} /\ pc' \in {"find", "gc"}
      /\ UNCHANGED <<free, currentBlock, currentPage, sliceAllocationTargetDie>>
      /\ victimBlockNo = NONE \/ victimBlockNo' = victimBlockNo
  BY DEF AddrTransWrite, GcStart, GcSkipPage, blockVars, dieVars, listVars,
         MappingInv, VictimInProgress
<1>2. \A d \in Die : \A b \in Good[d] : Collecting(d, b) => Collecting(d, b)'
  BY <1>1, Sizes DEF Collecting, Target
<1>3. \A d \in Die : \A b \in Good[d] : Full(d, b) => Full(d, b)'
  BY <1>1, <1>2 DEF Full
<1> QED
  BY <1>1, <1>3, FullStep

LEMMA WriteToCurrentBlockFull ==
  ASSUME MappingInv, FullInv, WriteToCurrentBlock PROVE FullInv'
<1>1. /\ pc \in {"find", "refind"} /\ pc' = "idle"
      /\ victimBlockNo = NONE /\ victimBlockNo' = NONE
      /\ UNCHANGED <<free, currentBlock>>
      /\ currentPage' = [currentPage EXCEPT ![Target][currentBlock[Target]] = @ + 1]
      /\ TypeOK
  BY DEF WriteToCurrentBlock, FinishWrite, Program, MappingInv, VictimInProgress
<1>2. \A d \in Die : \A b \in Good[d] : b \in Block /\ ~Collecting(d, b) /\ ~Collecting(d, b)'
  BY <1>1, Sizes DEF Collecting
<1>3. \A d \in Die : \A b \in Good[d] :
        b # currentBlock[d] => currentPage'[d][b] = currentPage[d][b]
  BY <1>1, <1>2 DEF TypeOK, Target
<1>4. \A d \in Die : \A b \in Good[d] : Full(d, b) => Full(d, b)'
  BY <1>1, <1>2, <1>3 DEF Full
<1> QED
  BY <1>1, <1>4, FullStep

\* A block opened takes the place of one that is full.
LEMMA WriteToFreeBlockFull ==
  ASSUME MappingInv, FullInv, WriteToFreeBlock PROVE FullInv'
<1> PICK h : h = freeList[Target].head
  OBVIOUS
<1>1. /\ pc \in {"find", "refind"} /\ pc' = "idle" /\ OpenPage(Target) = P
      /\ victimBlockNo = NONE /\ victimBlockNo' = NONE
      /\ free' = [free EXCEPT ![Target][h] = FALSE]
      /\ currentBlock' = [currentBlock EXCEPT ![Target] = h]
      /\ currentPage' = [currentPage EXCEPT ![Target][h] = @ + 1]
      /\ TypeOK /\ Target \in Die
  BY Numbers DEF WriteToFreeBlock, FinishWrite, Program, MappingInv, VictimInProgress, GetFromFbList
<1>2. \A d \in Die : \A b \in Good[d] : b \in Block /\ ~Collecting(d, b) /\ ~Collecting(d, b)'
  BY <1>1, Sizes DEF Collecting
<1>3. ASSUME NEW d \in Die, NEW b \in Good[d], Full(d, b) PROVE Full(d, b)'
  <2>1. CASE d = Target /\ b = h
    BY <1>1, <2>1 DEF Full, TypeOK
  <2>2. CASE d = Target /\ b # h
    <3>1. /\ free'[d][b] = free[d][b] /\ currentPage'[d][b] = currentPage[d][b]
      BY <1>1, <1>2, <2>2 DEF TypeOK
    <3>2. CASE b = currentBlock[d]
      BY <1>1, <2>2, <3>1, <3>2 DEF Full, OpenPage
    <3>3. CASE b # currentBlock[d]
      BY <1>2, <1>3, <3>1, <3>3 DEF Full
    <3> QED
      BY <3>2, <3>3
  <2>3. CASE d # Target
    <3>1. /\ free'[d][b] = free[d][b] /\ currentPage'[d][b] = currentPage[d][b]
          /\ currentBlock'[d] = currentBlock[d]
      BY <1>1, <1>2, <2>3 DEF TypeOK
    <3> QED
      BY <1>2, <1>3, <3>1 DEF Full
  <2> QED
    BY <2>1, <2>2, <2>3
<1> QED
  BY <1>1, <1>3, FullStep

\* A copy that opens a block leaves one that is full, or the victim.
LEMMA GcCopyPageFull ==
  ASSUME MappingInv, FullInv, GcCopyPage PROVE FullInv'
<1>1. /\ pc = "gc" /\ pc' = "gc" /\ UNCHANGED <<sliceAllocationTargetDie, victimBlockNo>>
      /\ TypeOK /\ Target \in Die
  BY Numbers DEF GcCopyPage, MappingInv
<1>2. \A d \in Die : \A b \in Good[d] : b \in Block /\ (Collecting(d, b)' <=> Collecting(d, b))
  BY <1>1, Sizes DEF Collecting, Target
<1>3. CASE ~GcNeedsBlock
  <2>1. /\ UNCHANGED <<free, currentBlock>>
        /\ currentPage' = [currentPage EXCEPT ![Target][currentBlock[Target]] = @ + 1]
    BY <1>3 DEF GcCopyPage, Program
  <2>2. \A d \in Die : \A b \in Good[d] :
          b # currentBlock[d] => currentPage'[d][b] = currentPage[d][b]
    BY <1>1, <1>2, <2>1 DEF TypeOK, Target
  <2>3. \A d \in Die : \A b \in Good[d] : Full(d, b) => Full(d, b)'
    BY <1>2, <2>1, <2>2 DEF Full
  <2> QED
    BY <1>1, <2>3, FullStep
<1>4. CASE GcNeedsBlock
  <2> PICK h : h = freeList[Target].head
    OBVIOUS
  <2>1. /\ free' = [free EXCEPT ![Target][h] = FALSE]
        /\ currentBlock' = [currentBlock EXCEPT ![Target] = h]
        /\ currentPage' = [currentPage EXCEPT ![Target][h] = @ + 1]
    BY <1>4 DEF GcCopyPage, Program, GetFromFbList
  <2>2. Collecting(Target, currentBlock[Target]) \/ OpenPage(Target) = P
    BY <1>4 DEF GcNeedsBlock, Collecting
  <2>3. ASSUME NEW d \in Die, NEW b \in Good[d], Full(d, b) PROVE Full(d, b)'
    <3>1. CASE d = Target /\ b = h
      BY <1>1, <2>1, <3>1 DEF Full, TypeOK
    <3>2. CASE d = Target /\ b # h
      <4>1. /\ free'[d][b] = free[d][b] /\ currentPage'[d][b] = currentPage[d][b]
        BY <1>1, <1>2, <2>1, <3>2 DEF TypeOK
      <4>2. CASE b = currentBlock[d]
        BY <1>2, <2>2, <3>2, <4>1, <4>2 DEF Full, OpenPage
      <4>3. CASE b # currentBlock[d]
        BY <1>2, <2>3, <4>1, <4>3 DEF Full
      <4> QED
        BY <4>2, <4>3
    <3>3. CASE d # Target
      <4>1. /\ free'[d][b] = free[d][b] /\ currentPage'[d][b] = currentPage[d][b]
            /\ currentBlock'[d] = currentBlock[d]
        BY <1>1, <1>2, <2>1, <3>3 DEF TypeOK
      <4> QED
        BY <1>2, <2>3, <4>1 DEF Full
    <3> QED
      BY <3>1, <3>2, <3>3
  <2> QED
    BY <1>1, <2>3, FullStep
<1> QED
  BY <1>3, <1>4

LEMMA EraseBlockFull ==
  ASSUME MappingInv, FullInv, EraseBlock PROVE FullInv'
<1> PICK t, v : t = Target /\ v = victimBlockNo
  OBVIOUS
<1>1. /\ pc = "gc" /\ pc' = "refind" /\ TypeOK
      /\ free' = [free EXCEPT ![t][v] = TRUE]
      /\ currentPage' = [currentPage EXCEPT ![t][v] = 0]
      /\ UNCHANGED dieVars
  BY DEF EraseBlock, MappingInv
<1>2. t \in Die /\ v \in Block
  BY <1>1, VictimFacts
<1>3. ASSUME NEW d \in Die, NEW b \in Good[d], Full(d, b) PROVE Full(d, b)'
  <2>1. b \in Block
    BY Sizes
  <2>2. CASE d = t /\ b = v
    BY <1>1, <1>2, <2>2 DEF Full, TypeOK
  <2>3. CASE ~(d = t /\ b = v)
    <3>1. /\ free'[d][b] = free[d][b] /\ currentPage'[d][b] = currentPage[d][b]
          /\ currentBlock'[d] = currentBlock[d] /\ ~Collecting(d, b)
      BY <1>1, <1>2, <2>1, <2>3 DEF TypeOK, dieVars, Collecting
    <3> QED
      BY <1>3, <3>1 DEF Full
  <2> QED
    BY <2>2, <2>3
<1> QED
  BY <1>1, <1>3, FullStep

LEMMA FullNext ==
  ASSUME MappingInv, FullInv, [Next]_vars PROVE FullInv'
<1>1. CASE UNCHANGED vars
  BY <1>1 DEF FullInv, Collecting, Target, vars, mapVars, listVars, blockVars, dieVars, ctlVars
<1> QED
  BY <1>1, InitBlockMapFull, InitCurrentBlockOfDieMapFull, QuietFull, WriteToCurrentBlockFull,
     WriteToFreeBlockFull, GcCopyPageFull, EraseBlockFull DEF Next

-----------------------------------------------------------------------------
\* The collector always finds a victim, if the slices the host uses fit in the
\* blocks of each die but the reserved one.  With one slice more it may not:
\* the dies are filled in turn, but a die may be left with all the live data.

\* Pages that serve a slice, in blocks of a die: they are fewer than the
\* slices, when some slice has no page.
LEMMA ValidPagesCount ==
  ASSUME TypeOK, IsFiniteSet(LSA), NEW d \in Die, NEW S \in SUBSET Block,
         \A b \in S, p \in Page : PageValid(<<d, b, p>>),
         NEW l \in LSA, logicalSliceMap[l] = NONE
  PROVE  Cardinality(S) * P < Cardinality(LSA)
<1> DEFINE T == LSA \ {l}
           f == [x \in S \X Page |-> virtualSliceMap[<<d, x[1], x[2]>>]]
<1>1. \A x \in S \X Page : x[1] \in S /\ x[2] \in Page /\ <<d, x[1], x[2]>> \in VSA
                           /\ x = <<x[1], x[2]>>
  BY DEF VSA
<1>2. ASSUME NEW v \in VSA, PageValid(v)
      PROVE  virtualSliceMap[v] \in T /\ logicalSliceMap[virtualSliceMap[v]] = v
  BY <1>2, Sizes DEF PageValid, TypeOK
<1>3. \A x \in S \X Page : f[x] \in T /\ logicalSliceMap[f[x]] = <<d, x[1], x[2]>>
  BY <1>1, <1>2
<1>4. f \in [S \X Page -> T]
  BY <1>3
<1>5. \A x, y \in S \X Page : f[x] = f[y] => x = y
  <2> HIDE DEF f
  <2> QED
    BY <1>1, <1>3
<1>6. IsFiniteSet(S) /\ IsFiniteSet(Page) /\ Cardinality(Page) = P
  BY Finiteness
<1>7. IsFiniteSet(S \X Page) /\ Cardinality(S \X Page) = Cardinality(S) * P
  BY <1>6, FS_Product
<1>8. IsFiniteSet(T) /\ Cardinality(T) = Cardinality(LSA) - 1
  BY FS_RemoveElement
<1>9. Cardinality(T) \in Nat /\ Cardinality(S \X Page) \in Nat
  BY <1>7, <1>8, FS_CardinalityType
<1>10. Cardinality(LSA) \in Nat
  BY FS_CardinalityType
<1> HIDE DEF f, T
<1>11. ~(Cardinality(T) < Cardinality(S \X Page))
  BY <1>4, <1>5, <1>7, <1>8, FS_PigeonHole
<1> QED
  BY <1>7, <1>8, <1>9, <1>10, <1>11

\* A victim list that is empty is the list of no block.
LEMMA NoVictims ==
  ASSUME MappingInv, NEW d \in Die, VictimCounts(d) = {}
  PROVE  \A n \in 1..P : VictimBlocks(d, n) = {}
<1> TAKE n \in 1..P
<1>1. gcVictimList[d][n].head = NONE
  BY DEF VictimCounts
<1>2. n \in 0..P
  BY Sizes
<1>3. /\ IsList(gcVictimList[d][n], links[d], VictimBlocks(d, n))
      /\ VictimBlocks(d, n) \in SUBSET Block /\ IsFiniteSet(VictimBlocks(d, n))
      /\ NONE \notin Block
  BY <1>2, ListMembers DEF MappingInv, BlocksOnTheirLists
<1> QED
  BY <1>1, <1>3, IsListEnds

\* The blocks of a die from which no victim can be chosen hold live data only.
LEMMA NoVictimsAllValid ==
  ASSUME MappingInv, FullInv, NoFreeBlocks
  PROVE  \A b \in Good[Target] : ~free[Target][b] =>
           \A p \in Page : PageValid(<<Target, b, p>>)
<1> PICK d : d = Target
  OBVIOUS
<1>1. /\ pc = "find" /\ OpenPage(d) = P /\ VictimCounts(d) = {}
      /\ TypeOK /\ d \in Die /\ victimBlockNo = NONE
  BY Numbers DEF NoFreeBlocks, MappingInv, VictimInProgress
<1> SUFFICES ASSUME NEW b \in Good[d], ~free[d][b], NEW p \in Page
             PROVE  PageValid(<<d, b, p>>)
  OBVIOUS
<1>2. b \in Block /\ ~Collecting(d, b)
  BY <1>1, Sizes DEF Collecting
<1>3. currentPage[d][b] = P
  <2>1. CASE b = currentBlock[d]
    BY <1>1, <2>1 DEF OpenPage
  <2>2. CASE b # currentBlock[d]
    BY <1>1, <1>2, <2>2 DEF FullInv
  <2> QED
    BY <2>1, <2>2
<1>4. invalidSliceCnt[d][b] = 0
  <2>1. invalidSliceCnt[d][b] \in 0..P
    BY <1>1, <1>2 DEF TypeOK
  <2>2. \A n \in 1..P : invalidSliceCnt[d][b] # n
    BY <1>1, <1>2, NoVictims DEF VictimBlocks
  <2> QED
    BY <2>1, <2>2, Sizes
<1>5. InvalidPages(d, b) = {}
  <2>1. Cardinality(InvalidPages(d, b)) = 0
    BY <1>1, <1>2, <1>4 DEF MappingInv, InvalidSlicesCounted
  <2> QED
    BY <2>1, InvalidPagesBound, FS_EmptySet
<1> QED
  BY <1>3, <1>5, Sizes DEF InvalidPages

\* The slices of the host fit in the blocks of any one die but the reserved
\* ones.
HostFitsInADie ==
  /\ IsFiniteSet(LSA)
  /\ \A d \in Die :
       Cardinality(LSA) <= (Cardinality(Good[d]) - RESERVED_FREE_BLOCK_COUNT) * P

LEMMA VictimFound ==
  ASSUME HostFitsInADie, MappingInv, ReserveInv, FullInv PROVE AlwaysAVictim
<1> SUFFICES ASSUME NoFreeBlocks PROVE FALSE
  BY DEF AlwaysAVictim
<1> PICK d : d = Target
  OBVIOUS
<1>1. /\ pc = "find" /\ ~(freeBlockCnt[d] > 1) /\ TypeOK /\ d \in Die
      /\ request.lsa \in LSA /\ logicalSliceMap[request.lsa] = NONE
  BY Numbers DEF NoFreeBlocks, HasFreeBlockNormal, RESERVED_FREE_BLOCK_COUNT, MappingInv,
     WriteInProgress
<1>2. freeBlockCnt[d] = 1
  BY <1>1, Numbers DEF ReserveInv, ReserveHeld
<1>3. Cardinality(FreeBlocks(d)) = 1 /\ IsFiniteSet(FreeBlocks(d))
  BY <1>1, <1>2, ListMembers DEF MappingInv, BlocksOnTheirLists
<1> PICK r : FreeBlocks(d) = {r}
  BY <1>3, FS_Singleton
<1> DEFINE S == Good[d] \ {r}
<1>4. Good[d] \in SUBSET Block /\ r \in Good[d]
  BY <1>1, Sizes DEF FreeBlocks
<1>5. IsFiniteSet(Good[d])
  BY <1>4, Finiteness
<1>6. Cardinality(S) = Cardinality(Good[d]) - 1
  BY <1>4, <1>5, FS_RemoveElement
<1>7. \A b \in S : ~free[d][b]
  BY DEF FreeBlocks
<1>8. \A b \in S, p \in Page : PageValid(<<d, b, p>>)
  BY <1>7, NoVictimsAllValid
<1> HIDE DEF S
<1>9. S \in SUBSET Block
  BY <1>4 DEF S
<1>10. Cardinality(S) * P < Cardinality(LSA)
  BY <1>1, <1>8, <1>9, ValidPagesCount DEF HostFitsInADie
<1>11. Cardinality(LSA) <= Cardinality(S) * P
  BY <1>1, <1>6 DEF HostFitsInADie, RESERVED_FREE_BLOCK_COUNT
<1>12. Cardinality(LSA) \in Nat /\ Cardinality(S) \in Nat /\ P \in Nat
  BY <1>5, <1>9, Finiteness, FS_CardinalityType, Sizes DEF HostFitsInADie
<1>13. Cardinality(S) * P \in Nat
  BY <1>12
<1> QED
  BY ONLY <1>10, <1>11, <1>12, <1>13

RoomInv == ~curErased => MappingInv /\ ReserveInv /\ FullInv

\* Until the collector erases an open block, every block that is not free is
\* full, but for the open one of its die and the one being collected.
THEOREM BlocksFullInductive == Spec => []RoomInv
<1>1. Init => RoomInv
  <2> SUFFICES ASSUME Init PROVE FullInv
    BY InitInv, ReserveInit DEF RoomInv
  <2>1. pc = "initBlockMap" /\ initAt = <<0, 0>>
    BY DEF Init
  <2>2. \A d \in Die : ~(d < 0)
    BY Sizes
  <2>3. \A d \in Die : \A b \in Good[d] : ~(b < 0)
    BY Sizes
  <2> QED
    BY <2>1, <2>2, <2>3 DEF FullInv
<1>2. RoomInv /\ [Next]_vars => RoomInv'
  <2> SUFFICES ASSUME RoomInv, [Next]_vars, ~curErased'
               PROVE  MappingInv' /\ ReserveInv' /\ FullInv'
    BY DEF RoomInv
  <2>1. MappingInv /\ ReserveInv /\ FullInv
    BY ErasedStays DEF RoomInv
  <2>2. MappingInv'
    BY <2>1, NextInv DEF IInv
  <2> QED
    BY <2>1, <2>2, ReserveNext, FullNext
<1> QED
  BY <1>1, <1>2, PTL DEF Spec

\* GetFromGcVictimList finds a block with an invalid slice whenever the
\* collector is started, if the slices of the host fit in the blocks of any one
\* die but the reserved one.
THEOREM CollectorFindsAVictim == Spec => [](HostFitsInADie /\ ~curErased => AlwaysAVictim)
<1>1. RoomInv => (HostFitsInADie /\ ~curErased => AlwaysAVictim)
  BY VictimFound DEF RoomInv
<1> QED
  BY <1>1, BlocksFullInductive, PTL
=============================================================================
