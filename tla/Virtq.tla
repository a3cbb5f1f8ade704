------------------------------- MODULE Virtq -------------------------------
(***************************************************************************)
(* A split virtqueue (virtio.c, virtio.h): the descriptor table with its   *)
(* free list, the available ring the driver writes, the used ring the      *)
(* device writes, and how far each side has read the other's.              *)
(*                                                                         *)
(* Ring indices are 16-bit counters that run freely and wrap; IdxMod stands*)
(* for 2^16.  A descriptor's address and length are its buffer and are not *)
(* kept; `chained` holds the descriptors with VIRTQ_DESC_F_NEXT.           *)
(***************************************************************************)
EXTENDS Integers, FiniteSets, Sequences

CONSTANTS QSize,      \* q->size
          IdxMod      \* 2^16, the range of idx and last_used_idx

ASSUME VirtqAssumption ==
  /\ QSize \in Nat \ {0, 1} /\ IdxMod \in Nat
  /\ QSize < IdxMod /\ IdxMod % QSize = 0

Descs == 0..QSize-1
Idx == 0..IdxMod-1

VARIABLES
  next, chained,            \* desc[i].next, and the i with F_NEXT
  free_head, num_free,
  avail_ring, avail_idx,
  used_ring, used_idx, last_used_idx,
  dev_avail,                \* the device: how far it has read avail
  dev_has,                  \* heads it has taken and not returned
  kick,                     \* a QUEUE_NOTIFY it has not yet dealt with
  live                      \* STATUS has DRIVER_OK

freeList == <<next, chained, free_head, num_free>>
device == <<dev_avail, dev_has, kick>>
queueVars == <<freeList, avail_ring, avail_idx, used_ring, used_idx, last_used_idx, device, live>>

VirtqInit ==
  /\ next = [d \in Descs |-> 0] /\ chained = {}
  /\ free_head = 0 /\ num_free = 0
  /\ avail_ring = [s \in Descs |-> 0] /\ avail_idx = 0
  /\ used_ring = [s \in Descs |-> 0] /\ used_idx = 0 /\ last_used_idx = 0
  /\ dev_avail = 0 /\ dev_has = {} /\ kick = FALSE /\ live = FALSE

-----------------------------------------------------------------------------
(***************************************************************************)
(* Set-up.                                                                 *)
(***************************************************************************)

\* Status 0: the device forgets its queues and the driver spins until it has.
DeviceReset == dev_avail' = 0 /\ dev_has' = {} /\ kick' = FALSE

FreeInit ==
  /\ next' = [d \in Descs |-> IF d = QSize - 1 THEN 0 ELSE d + 1]
  /\ free_head' = 0 /\ num_free' = QSize

\* Variant: the used index of the last session survives.
QueueSetupKeepsUsed ==
  /\ DeviceReset /\ FreeInit /\ chained' = {}
  /\ avail_idx' = 0 /\ last_used_idx' = 0
  /\ UNCHANGED <<avail_ring, used_ring, used_idx>>

\* virtio_init, virtio_queue_setup and virtq_free_init.  A device that refuses
\* the features or the size leaves the driver as it was.
QueueSetup ==
  /\ DeviceReset /\ FreeInit /\ chained' = {}
  /\ avail_idx' = 0 /\ used_idx' = 0 /\ last_used_idx' = 0
  /\ UNCHANGED <<avail_ring, used_ring>>

-----------------------------------------------------------------------------
(***************************************************************************)
(* The free list, threaded through desc[].next.                            *)
(***************************************************************************)

\* The first n descriptors of the free list: what n calls of virtq_alloc_desc
\* return.
Nth[n \in Nat] == IF n = 0 THEN free_head ELSE next[Nth[n - 1]]

\* Variant: takes descriptors in index order, whatever the list says.
AllocDescNextIndex(n) ==
  /\ free_head' = (free_head + n) % QSize
  /\ num_free' = num_free - n

\* n calls of virtq_alloc_desc, with n <= num_free.
AllocDesc(n) ==
  /\ free_head' = Nth[n]
  /\ num_free' = num_free - n

FreeDesc(d) ==
  /\ next' = [next EXCEPT ![d] = free_head]
  /\ free_head' = d
  /\ num_free' = num_free + 1
  /\ UNCHANGED chained

\* virtq_free_desc(rid), then virtq_free_desc(head).
FreeChain(head) ==
  LET rid == next[head] IN
  /\ next' = [next EXCEPT ![rid] = free_head, ![head] = rid]
  /\ free_head' = head
  /\ num_free' = num_free + 2
  /\ UNCHANGED chained

-----------------------------------------------------------------------------
(***************************************************************************)
(* The rings.                                                              *)
(***************************************************************************)

Inc(i) == (i + 1) % IdxMod
Ahead(i, j) == (i + IdxMod - j) % IdxMod      \* i - j as uint16_t

\* virtq_avail_push: the entry, a fence, the index.
AvailEntry(head) == avail_ring' = [avail_ring EXCEPT ![avail_idx % QSize] = head]
AvailIndex == avail_idx' = Inc(avail_idx)

\* Mutants: the newest entry instead of the oldest; the index runs past 16 bits.
UsedIdNewest == used_ring[(used_idx + IdxMod - 1) % QSize]
\* virtq_used_pop: something new, its id, and the step past it.
UsedPending == used_idx # last_used_idx
UsedId == used_ring[last_used_idx % QSize]
UsedTake == last_used_idx' = Inc(last_used_idx)

\* The device takes the next chain, if it has been notified; having found the
\* ring empty it waits for the next notification.
DevTake ==
  /\ live /\ kick
  /\ IF dev_avail = avail_idx
     THEN kick' = FALSE /\ UNCHANGED <<dev_avail, dev_has>>
     ELSE /\ dev_has' = dev_has \cup {avail_ring[dev_avail % QSize]}
          /\ dev_avail' = Inc(dev_avail)
          /\ UNCHANGED kick
  /\ UNCHANGED <<freeList, avail_ring, avail_idx, used_ring, used_idx, last_used_idx, live>>

\* The device returns a chain, in any order.
DevReturn(head) ==
  /\ head \in dev_has
  /\ dev_has' = dev_has \ {head}
  /\ used_ring' = [used_ring EXCEPT ![used_idx % QSize] = head]
  /\ used_idx' = Inc(used_idx)
  /\ UNCHANGED <<freeList, avail_ring, avail_idx, last_used_idx, dev_avail, kick, live>>

-----------------------------------------------------------------------------
(***************************************************************************)
(* Who has a descriptor.                                                   *)
(***************************************************************************)

Chain(head) == IF head \in chained THEN {head, next[head]} ELSE {head}
Chains(heads) == UNION {Chain(h) : h \in heads}

FreeSet == {Nth[n] : n \in 0..num_free-1}
AvailSeq == [k \in 1..Ahead(avail_idx, dev_avail) |-> avail_ring[(dev_avail + k - 1) % QSize]]
UsedSeq == [k \in 1..Ahead(used_idx, last_used_idx) |-> used_ring[(last_used_idx + k - 1) % QSize]]
Elements(s) == {s[k] : k \in 1..Len(s)}

\* Given the descriptors the driver has in hand: every descriptor is in exactly
\* one place, and in each place once.
Partitioned(held) ==
  LET places == <<FreeSet, held, Chains(Elements(AvailSeq)), Chains(dev_has),
                  Chains(Elements(UsedSeq))>>
  IN /\ UNION Elements(places) = Descs
     /\ \A i, j \in 1..Len(places) : i # j => places[i] \cap places[j] = {}
     /\ Cardinality(FreeSet) = num_free
     /\ Cardinality(Elements(AvailSeq)) = Len(AvailSeq)
     /\ Cardinality(Elements(UsedSeq)) = Len(UsedSeq)
=============================================================================
