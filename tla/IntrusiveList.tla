--------------------------- MODULE IntrusiveList ---------------------------
(***************************************************************************)
(* The doubly linked lists of the firmware.  A block, a request slot, a    *)
(* data-buffer entry or a way is linked through index fields of its own    *)
(* (prevBlock and nextBlock, prevReq and nextReq, ...), so an element has  *)
(* ONE pair of links whatever list it is on, and a list is only a pair of  *)
(* a head and a tail index.  Every queue of the source repeats the same    *)
(* three pieces of code: put at the tail, get from the head, and unlink    *)
(* from the middle.                                                        *)
(*                                                                         *)
(* `list' is a record [head, tail] and `links' a record [prev, next] of    *)
(* functions from elements; an operation returns both, as [list, links].   *)
(***************************************************************************)
EXTENDS Integers, FiniteSets

CONSTANT NONE        \* BLOCK_NONE, REQ_SLOT_TAG_NONE, ...: no element

EmptyList == [head |-> NONE, tail |-> NONE]

NoLinks(Elems) == [prev |-> [e \in Elems |-> NONE],
                   next |-> [e \in Elems |-> NONE]]

\* Put at the tail.  The element's old links are overwritten without a look.
PutTail(list, links, e) ==
  IF list.tail # NONE
  THEN [list  |-> [head |-> list.head, tail |-> e],
        links |-> [prev |-> [links.prev EXCEPT ![e] = list.tail],
                   next |-> [links.next EXCEPT ![e] = NONE, ![list.tail] = e]]]
  ELSE [list  |-> [head |-> e, tail |-> e],
        links |-> [prev |-> [links.prev EXCEPT ![e] = NONE],
                   next |-> [links.next EXCEPT ![e] = NONE]]]

\* Get from the head of a list that is not empty.  The element that leaves
\* keeps its links: the callers that clear them do it themselves.
GetHead(list, links) ==
  LET second == links.next[list.head]
  IN  IF second # NONE
      THEN [list  |-> [head |-> second, tail |-> list.tail],
            links |-> [prev |-> [links.prev EXCEPT ![second] = NONE],
                       next |-> links.next]]
      ELSE [list |-> EmptyList, links |-> links]

\* Mutant: the follower keeps its backward link.
MutUnlink(list, links, e) ==
  LET n == links.next[e]
      p == links.prev[e]
  IN  [list  |-> IF n = NONE /\ p = NONE THEN EmptyList
                 ELSE [head |-> IF p = NONE THEN n ELSE list.head,
                       tail |-> IF n = NONE THEN p ELSE list.tail],
       links |-> [prev |-> links.prev,
                  next |-> IF p = NONE THEN links.next
                           ELSE [links.next EXCEPT ![p] = n]]]

\* Take an element out of the middle.  The four cases are decided by the
\* element's own links alone; nothing checks that it is on this list.
Unlink(list, links, e) ==
  LET n == links.next[e]
      p == links.prev[e]
  IN  [list  |-> IF n = NONE /\ p = NONE THEN EmptyList
                 ELSE [head |-> IF p = NONE THEN n ELSE list.head,
                       tail |-> IF n = NONE THEN p ELSE list.tail],
       links |-> [prev |-> IF n = NONE THEN links.prev
                           ELSE [links.prev EXCEPT ![n] = p],
                  next |-> IF p = NONE THEN links.next
                           ELSE [links.next EXCEPT ![p] = n]]]

\* Mutant: nextBlock not cleared.
MutClearPrev(links, e) == [prev |-> [links.prev EXCEPT ![e] = NONE],
                           next |-> links.next]

\* The links of an element cleared, as after an eviction.
ClearLinks(links, e) == [prev |-> [links.prev EXCEPT ![e] = NONE],
                         next |-> [links.next EXCEPT ![e] = NONE]]

(***************************************************************************)
(* IsList(list, links, M): the chain that starts at the head visits every  *)
(* element of M exactly once, ends at the tail, and the backward links     *)
(* mirror the forward ones.  s is the list as a sequence.                  *)
(***************************************************************************)
IsChain(s, n, list, links, M) ==
  /\ \A e \in M : \E i \in 1..n : s[i] = e
  /\ \A i, j \in 1..n : s[i] = s[j] => i = j
  /\ list.head = IF n = 0 THEN NONE ELSE s[1]
  /\ list.tail = IF n = 0 THEN NONE ELSE s[n]
  /\ \A i \in 1..n : /\ links.next[s[i]] = IF i = n THEN NONE ELSE s[i + 1]
                     /\ links.prev[s[i]] = IF i = 1 THEN NONE ELSE s[i - 1]

IsList(list, links, M) ==
  LET n == Cardinality(M) IN \E s \in [1..n -> M] : IsChain(s, n, list, links, M)

ListOf(Elems) == [head : Elems \cup {NONE}, tail : Elems \cup {NONE}]

LinksOf(Elems) == [prev : [Elems -> Elems \cup {NONE}],
                   next : [Elems -> Elems \cup {NONE}]]
=============================================================================
