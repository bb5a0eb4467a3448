----------------------------- MODULE NandAddress -----------------------------
(***************************************************************************)
(* Where the virtual slices of AddressTranslation lie in the rows of the   *)
(* NAND chips: the row a request names to the chip.  One LUN to a die      *)
(* (LUNS_PER_DIE).                                                         *)
(***************************************************************************)
EXTENDS AddressTranslation

CONSTANTS
  TOTAL_BLOCKS_PER_LUN,   \* at least B: the user's blocks, the spare ones after them
  RemappedPhyBlock        \* [Die -> [0 .. TOTAL_BLOCKS_PER_LUN - 1 -> Nat]]:
                          \* phyBlockMapPtr after boot

PAGES_PER_SLC_BLOCK == P

\* The pages of a block in SLC mode are its LSB pages.
Vpage2PlsbPage(p) == IF p > 0 THEN 2 * p - 1 ELSE 0

Remapped(d, b) == RemappedPhyBlock[d][b] % TOTAL_BLOCKS_PER_LUN

\* A request names its page as a virtual slice, or as a physical page of the
\* block space of the chip (TOTAL) or of the user (MAIN); only the first is
\* brought to LSB pages, only the space TOTAL escapes the remapping.  LUN 0,
\* the only one, begins at row 0.
GenerateNandRowAddr(r) ==
  LET block == IF r.nandAddr = "PHY_ORG" /\ r.blockSpace = "TOTAL"
               THEN r.block % TOTAL_BLOCKS_PER_LUN
               ELSE Remapped(r.die, r.block)
      page == IF r.nandAddr = "VSA" THEN Vpage2PlsbPage(r.page) ELSE r.page
  IN  block * PAGES_PER_SLC_BLOCK + page

VsaRequest(v) ==
  [nandAddr |-> "VSA", blockSpace |-> "MAIN", die |-> v[1], block |-> v[2], page |-> v[3]]

RowOf(v) == GenerateNandRowAddr(VsaRequest(v))

-----------------------------------------------------------------------------
\* `a slice directs a page, full page mapping' (ftl_config.h:122): no two
\* slices the host may still read are on one row of a chip.
OneSlicePerRow ==
  \A l, m \in LSA :
    LET v == AddrTransRead(l)
        w == AddrTransRead(m)
    IN  l # m /\ v # NONE /\ w # NONE /\ Vsa2Vdie(v) = Vsa2Vdie(w) => RowOf(v) # RowOf(w)
=============================================================================
