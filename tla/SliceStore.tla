----------------------------- MODULE SliceStore -----------------------------
(***************************************************************************)
(* What the mapping promises to the layers above it: an array of slices.   *)
(* A write changes the slice it names and no other, at the instant it      *)
(* starts; until it is done nothing changes, so that moving data around    *)
(* inside the flash is invisible.                                          *)
(***************************************************************************)
CONSTANTS LSA, Data, NONE

VARIABLES
  store,       \* [LSA -> Data, or NONE for a slice never written]
  request      \* the write being done

NoWrite == [lsa |-> NONE, data |-> NONE]

Init == /\ store = [l \in LSA |-> NONE]
        /\ request = NoWrite

Write(l, x) == /\ request = NoWrite
               /\ request' = [lsa |-> l, data |-> x]
               /\ store' = [store EXCEPT ![l] = x]

Done == /\ request # NoWrite
        /\ request' = NoWrite
        /\ UNCHANGED store

Next == Done \/ \E l \in LSA, x \in Data : Write(l, x)

Spec == Init /\ [][Next]_<<store, request>>
=============================================================================
