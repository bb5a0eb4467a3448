----------------------------- MODULE DataBuffer -----------------------------
(***************************************************************************)
(* The data buffer's directory: which slice each entry holds and whether   *)
(* it is newer there than on the flash, the list of the entries from the   *)
(* last used to the least recently used, and the hash lists through which  *)
(* a slice is looked up.  The lists are sequences here, as the links keep  *)
(* them; the entry of a list is found by its slice, so that the two have   *)
(* to change in the right order.                                           *)
(***************************************************************************)
EXTENDS Integers, Sequences, SequencesExt

CONSTANT N        \* AVAILABLE_DATA_BUFFER_ENTRY_COUNT

ASSUME EntryCountAssumption == N \in Nat \ {0}

Entry == 0 .. N - 1
LSA_NONE == -1

VARIABLES
  lsaOf,   \* of each entry: logicalSliceAddr
  dirty,
  lru,     \* dataBufLruList, from its head
  hash     \* dataBufHashTable, each list from its head

dataBufVars == <<lsaOf, dirty, lru, hash>>

InitDataBuf ==
  /\ lsaOf = [e \in Entry |-> LSA_NONE]
  /\ dirty = [e \in Entry |-> FALSE]
  /\ lru = [i \in 1 .. N |-> i - 1]
  /\ hash = [h \in Entry |-> <<>>]

FindDataBufHashTableEntry(lsa) == lsa % N

Listed(lsa) == hash[FindDataBufHashTableEntry(lsa)]

\* CheckDataBufHit: the entries it would return, one at most.
Found(lsa) ==
  {e \in Entry : \E i \in DOMAIN Listed(lsa) :
      /\ Listed(lsa)[i] = e /\ lsaOf[e] = lsa
      /\ \A j \in 1 .. i - 1 : lsaOf[Listed(lsa)[j]] # lsa}

\* An entry is unlinked and put at the head of the list.
Used(e) == <<e>> \o RemoveFirst(lru, e)

CheckDataBufHit(lsa, e) ==
  /\ e \in Found(lsa)
  /\ lru' = Used(e)
  /\ UNCHANGED <<lsaOf, dirty, hash>>

\* AllocateDataBuf: the entry it takes.
Victim == Last(lru)

\* Mutant: the entry is looked for on the list of its new slice.
MutSelectiveGet(e, lsa) ==
  [hash EXCEPT ![FindDataBufHashTableEntry(lsa)] = RemoveFirst(@, e)]

\* SelectiveGetFromDataBufHashList: from the list of the slice it held.
SelectiveGet(e, lsa) ==
  IF lsaOf[e] = LSA_NONE THEN hash
  ELSE [hash EXCEPT ![FindDataBufHashTableEntry(lsaOf[e])] = RemoveFirst(@, e)]

\* PutToDataBufHashList.
Put(lists, e, lsa) == [lists EXCEPT ![FindDataBufHashTableEntry(lsa)] = Append(@, e)]

\* The entry that a slice takes which has none: AllocateDataBuf, the end of
\* EvictDataBufEntry, and PutToDataBufHashList for the new slice.
Reuse(e, lsa) ==
  /\ Found(lsa) = {} /\ e = Victim
  /\ lru' = Used(e)
  /\ hash' = Put(SelectiveGet(e, lsa), e, lsa)
  /\ lsaOf' = [lsaOf EXCEPT ![e] = lsa]
  /\ dirty' = [dirty EXCEPT ![e] = FALSE]

-----------------------------------------------------------------------------
DataBufTypeOK ==
  /\ lsaOf \in [Entry -> Nat \cup {LSA_NONE}]
  /\ dirty \in [Entry -> BOOLEAN]
  /\ lru \in Seq(Entry)
  /\ hash \in [Entry -> Seq(Entry)]

Holds(e) == lsaOf[e] # LSA_NONE

(***************************************************************************)
(* The lists agree with the entries: every entry is on the LRU list once;  *)
(* an entry that holds a slice is once on the hash list of that slice and  *)
(* on no other, an empty one on none; and no two entries hold the same     *)
(* slice, or one of them would hide what was written to the other.         *)
(* (CheckDataBufHit, AllocateDataBuf, PutToDataBufHashList,                *)
(* SelectiveGetFromDataBufHashList.)                                       *)
(***************************************************************************)
ListsAgree ==
  /\ ToSet(lru) = Entry /\ IsInjective(lru)
  /\ \A h \in Entry :
       /\ ToSet(hash[h]) = {e \in Entry : Holds(e) /\ FindDataBufHashTableEntry(lsaOf[e]) = h}
       /\ IsInjective(hash[h])
  /\ \A e, f \in Entry : Holds(e) /\ lsaOf[e] = lsaOf[f] => e = f
=============================================================================
