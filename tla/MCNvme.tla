------------------------------- MODULE MCNvme -------------------------------
(* Model-checking instances of Disk: pages of two blocks, list pages of three *)
(* entries, two of them, so that a command holds six pages.                   *)
EXTENDS Disk

\* One page, two pages, a list page filled to its last slot, a chained list for
\* an unaligned buffer, a transfer split after the largest batch, and the largest
\* batch for an unaligned buffer, which overruns the list.
Calls ==
  {[off |-> 0, nlb |-> 1], [off |-> 1, nlb |-> 2], [off |-> 0, nlb |-> 8],
   [off |-> 1, nlb |-> 9], [off |-> 0, nlb |-> 13], [off |-> 1, nlb |-> 12]}
=============================================================================
