-------------------------- MODULE MCAddressSpaces --------------------------
(***************************************************************************)
(* AddressSpaces for TLC.                                                   *)
(***************************************************************************)
EXTENDS AddressSpaces

\* Which physical page holds what makes no difference: states are told apart
\* by what is mapped and what it contains, by how many pages are free, and by
\* whether they are well typed and every page is accounted for.
Entry(q, r) ==
  IF tbl[q].l1[r] \in Huge THEN "huge" ELSE IF tbl[q].l1[r] = 0 THEN "none" ELSE "table"
PageView(q, n) ==
  CASE tbl[q].l1[RegionOf(n)] \in Huge -> <<tbl[q].perm[n], hmem[tbl[q].l1[RegionOf(n)]][n % H]>>
    [] tbl[q].pte[n] # 0 -> <<tbl[q].perm[n], mem[tbl[q].pte[n]]>>
    [] OTHER -> <<"none", 0>>
MemoryView ==
  <<[q \in Table |-> <<tbl[q].root # 0, tbl[q].dir # 0, [r \in Region |-> Entry(q, r)],
                       [n \in Page |-> PageView(q, n)]>>],
    Cardinality(free), Cardinality(hfree), sz, wrote, panic, held, TypeOK, PagesExact>>
=============================================================================
