-------------------------------- MODULE Prp --------------------------------
(***************************************************************************)
(* setup_prp of nvme.c: the PRP1/PRP2 fields and the chained PRP list that *)
(* tell the controller where the pages of a buffer are, and the            *)
(* controller's side (external, NVMe 4.1.2): how it finds the pages again. *)
(*                                                                         *)
(* Sizes and addresses are counted in blocks; a page is LbasPerPage of     *)
(* them.  List memory is a row of entries, ListEntries per list page; the  *)
(* n->prp_list array ends at Capacity, and whatever follows it in nvme_t   *)
(* is modelled as one more page of entries.                                *)
(***************************************************************************)
EXTENDS Naturals, Sequences

CONSTANTS
  LbasPerPage,    \* NVME_PAGE_SIZE / NVME_LBA_SIZE (8)
  ListEntries,    \* ENTRIES_PER_LIST_PAGE (512)
  ListPages       \* NVME_PRP_LIST_PAGES (16)

ASSUME PrpAssumption ==
  /\ LbasPerPage \in Nat \ {0}
  /\ ListEntries \in Nat \ {0, 1}
  /\ ListPages \in Nat \ {0}

Capacity == ListPages * ListEntries
NoEntry == [kind |-> "none", to |-> 0]
Data(page) == [kind |-> "data", to |-> page]
Chain(listpage) == [kind |-> "chain", to |-> listpage]

ListMemory == 0..Capacity + ListEntries - 1
BlankList == [p \in ListMemory |-> NoEntry]

\* NVME_MAX_SINGLE_TRANSFER: 1 PRP1 page, ListPages - 1 chained list pages and
\* a full final one.
MaxTransfer ==
  (1 + (ListPages - 1) * (ListEntries - 1) + ListEntries) * LbasPerPage

FirstChunk(addr) == LbasPerPage - (addr % LbasPerPage)
PageOf(addr) == addr \div LbasPerPage
EntriesNeeded(addr, size) ==
  (size - FirstChunk(addr) + LbasPerPage - 1) \div LbasPerPage

\* PRP2: nothing, the second page, or the list.
Prp2(addr, size) ==
  CASE size <= FirstChunk(addr) -> NoEntry
    [] size > FirstChunk(addr) /\ size <= FirstChunk(addr) + LbasPerPage
         -> Data(PageOf(addr + FirstChunk(addr)))
    [] OTHER -> Chain(0)

\* The loop that fills the list: pos is cur_page * ENTRIES + slot, i the number
\* of data entries written.
PrpStart(addr, size) ==
  [pos |-> 0, i |-> 0, base |-> PageOf(addr + FirstChunk(addr)),
   needed |-> IF Prp2(addr, size).kind = "chain" THEN EntriesNeeded(addr, size) ELSE 0]

PrpIsChain(st) ==
  LET last_slot == st.pos % ListEntries = ListEntries - 1
      more_after_this == st.i + 1 < st.needed
  IN last_slot /\ more_after_this

PrpEntryNeverChains(st) == Data(st.base + st.i)

\* What one turn writes at pos, and where it goes next.  A chain pointer does
\* not consume a data entry.
PrpEntry(st) ==
  IF PrpIsChain(st) THEN Chain((st.pos + 1) \div ListEntries) ELSE Data(st.base + st.i)

PrpAdvance(st) ==
  [st EXCEPT !.pos = @ + 1, !.i = IF PrpIsChain(st) THEN @ ELSE @ + 1]

-----------------------------------------------------------------------------
(***************************************************************************)
(* The controller.  It takes the last entry of a list page as a pointer to *)
(* the next list page when more than one data entry is still to come, so   *)
(* every page but the last holds ListEntries - 1 of them and the last one  *)
(* may hold ListEntries.                                                   *)
(***************************************************************************)

\* How many list pages n data entries take, and where entry i of n is.
ListPagesFor(n) ==
  IF n <= ListEntries THEN 1 ELSE (n - 2) \div (ListEntries - 1) + 1

EntryAt(i, n) ==
  LET lastpage == ListPagesFor(n) - 1
      page == IF i \div (ListEntries - 1) > lastpage THEN lastpage ELSE i \div (ListEntries - 1)
  IN page * ListEntries + (i - page * (ListEntries - 1))

\* Following PRP1, PRP2 and the list, the controller finds the pages
\* first, first + 1, ... of a transfer, in order.
ControllerFinds(addr, size, prp2, list) ==
  LET pages == PageOf(addr + size - 1) - PageOf(addr) + 1
      second == PageOf(addr) + 1
      n == pages - 1
  IN CASE pages = 1 -> TRUE
       [] pages = 2 -> prp2 = Data(second)
       [] pages > 2 ->
            /\ prp2 = Chain(0)
            /\ \A i \in 0..n-1 : list[EntryAt(i, n)] = Data(second + i)
            /\ \A l \in 0..ListPagesFor(n)-2 :
                 list[l * ListEntries + ListEntries - 1] = Chain(l + 1)
=============================================================================
