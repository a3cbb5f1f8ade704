---------------------------- MODULE VirtioProofs ----------------------------
(***************************************************************************)
(* Proofs about the virtqueue and its two drivers (virtio.c,               *)
(* virtio_gpu.c, virtio_input.c): for queues of any size, indices of any   *)
(* range that the size divides, and any number of commands, events and     *)
(* re-initialisations.                                                     *)
(*                                                                         *)
(* The device a machine has never changes, so each driver has an invariant *)
(* of its own.  The GPU's says that one chain, always the same one, is     *)
(* under way; the keyboard's follows every descriptor.                     *)
(***************************************************************************)
EXTENDS Virtio, SequenceTheorems, FiniteSetTheorems, NaturalsInduction, WellFoundedInduction, TLAPS

-----------------------------------------------------------------------------
(***************************************************************************)
(* Indices that run freely and wrap.                                       *)
(***************************************************************************)

LEMMA AheadValue ==
  ASSUME NEW i \in Idx, NEW j \in Idx
  PROVE  Ahead(i, j) = (IF j <= i THEN i - j ELSE i - j + IdxMod) /\ Ahead(i, j) \in Idx
  BY VirtqAssumption DEF Ahead, Idx

LEMMA IncValue ==
  ASSUME NEW i \in Idx
  PROVE  Inc(i) = (IF i + 1 = IdxMod THEN 0 ELSE i + 1) /\ Inc(i) \in Idx
  BY VirtqAssumption DEF Inc, Idx

\* A counter moves on, or the one behind it does.
LEMMA AheadInc ==
  ASSUME NEW i \in Idx, NEW j \in Idx
  PROVE  /\ Ahead(i, j) + 1 < IdxMod => Ahead(Inc(i), j) = Ahead(i, j) + 1
         /\ i # j => Ahead(i, Inc(j)) = Ahead(i, j) - 1
         /\ Ahead(i, j) = 0 <=> i = j
<1>1. /\ Inc(i) = (IF i + 1 = IdxMod THEN 0 ELSE i + 1) /\ Inc(i) \in Idx
      /\ Inc(j) = (IF j + 1 = IdxMod THEN 0 ELSE j + 1) /\ Inc(j) \in Idx
  BY IncValue
<1>2. Ahead(i, j) = (IF j <= i THEN i - j ELSE i - j + IdxMod)
  BY AheadValue
<1>3. Ahead(Inc(i), j) = (IF j <= Inc(i) THEN Inc(i) - j ELSE Inc(i) - j + IdxMod)
  BY <1>1, AheadValue
<1>4. Ahead(i, Inc(j)) = (IF Inc(j) <= i THEN i - Inc(j) ELSE i - Inc(j) + IdxMod)
  BY <1>1, AheadValue
<1>5. IdxMod \in Nat /\ i \in 0..IdxMod-1 /\ j \in 0..IdxMod-1
  BY VirtqAssumption DEF Idx
<1> QED
  BY <1>1, <1>2, <1>3, <1>4, <1>5

-----------------------------------------------------------------------------
(***************************************************************************)
(* The free list.                                                          *)
(***************************************************************************)

LEMMA SmallestOf ==
  ASSUME NEW S, S \subseteq Nat, S # {}
  PROVE  \E n \in S : \A m \in S : n <= m
<1>1. IsWellFoundedOn(OpToRel(<, Nat), Nat)
  BY NatLessThanWellFounded
<1>2. PICK n \in S : \A m \in S : ~(<<m, n>> \in OpToRel(<, Nat))
  BY <1>1, WFMin
<1>3. \A m \in S : ~(m < n)
  BY <1>2 DEF OpToRel
<1> QED
  BY <1>3

\* g lists the descriptors that n + 1 calls of virtq_alloc_desc return.
Follows(g, n) ==
  /\ g = [i \in 0..n |-> g[i]]
  /\ g[0] = free_head
  /\ \A i \in 1..n : g[i] = next[g[i - 1]]

LEMMA WalkExists == \A n \in Nat : \E g : Follows(g, n)
<1> DEFINE bad == {n \in Nat : ~\E g : Follows(g, n)}
<1> SUFFICES ASSUME bad # {} PROVE FALSE
  OBVIOUS
<1>1. PICK n \in bad : \A m \in bad : n <= m
  BY SmallestOf
<1>2. n # 0
  <2>1. Follows([i \in 0..0 |-> free_head], 0)
    BY DEF Follows
  <2> QED
    BY <2>1
<1>3. PICK g : Follows(g, n - 1)
  BY <1>1, <1>2
<1> DEFINE h == [i \in 0..n |-> IF i = n THEN next[g[n - 1]] ELSE g[i]]
<1>4. Follows(h, n)
  <2>1. h[0] = free_head
    BY <1>2, <1>3 DEF Follows
  <2>2. \A i \in 1..n : h[i] = next[h[i - 1]]
    <3> SUFFICES ASSUME NEW i \in 1..n PROVE h[i] = next[h[i - 1]]
      OBVIOUS
    <3>1. h[i - 1] = g[i - 1]
      OBVIOUS
    <3>2. CASE i = n
      BY <3>1, <3>2
    <3>3. CASE i # n
      <4>1. i \in 1..n-1 /\ h[i] = g[i]
        BY <1>1, <3>3
      <4> QED
        BY <1>3, <3>1, <4>1 DEF Follows
    <3> QED
      BY <3>2, <3>3
  <2> QED
    BY <2>1, <2>2 DEF Follows
<1> QED
  BY <1>1, <1>4

LEMMA WalkUnique ==
  ASSUME NEW n \in Nat, NEW m \in Nat, NEW g, NEW h, Follows(g, n), Follows(h, m)
  PROVE  \A i \in 0..n : i <= m => g[i] = h[i]
<1> DEFINE bad == {i \in 0..n : i <= m /\ g[i] # h[i]}
<1> SUFFICES ASSUME bad # {} PROVE FALSE
  OBVIOUS
<1>0. bad \subseteq Nat
  OBVIOUS
<1>1. PICK i \in bad : \A j \in bad : i <= j
  BY <1>0, SmallestOf
<1>2. i # 0
  BY <1>1 DEF Follows
<1>3. g[i - 1] = h[i - 1] /\ i \in 1..n /\ i \in 1..m
  BY <1>1, <1>2
<1> QED
  BY <1>1, <1>3 DEF Follows

\* The recursive definition of Nth has a solution, and so can be unfolded.
LEMMA NthValue ==
  /\ Nth[0] = free_head
  /\ \A n \in Nat : Nth[n + 1] = next[Nth[n]]
<1> DEFINE Walk(n) == CHOOSE g : Follows(g, n)
           f == [n \in Nat |-> Walk(n)[n]]
           body(h) == [n \in Nat |-> IF n = 0 THEN free_head ELSE next[h[n - 1]]]
<1>1. \A n \in Nat : Follows(Walk(n), n)
  BY WalkExists
<1> HIDE DEF Walk
<1>2. \A n \in Nat : f[n] = IF n = 0 THEN free_head ELSE next[f[n - 1]]
  <2> SUFFICES ASSUME NEW n \in Nat PROVE f[n] = IF n = 0 THEN free_head ELSE next[f[n - 1]]
    OBVIOUS
  <2>1. CASE n = 0
    BY <1>1, <2>1 DEF Follows
  <2>2. CASE n # 0
    <3>1. Walk(n)[n] = next[Walk(n)[n - 1]]
      BY <1>1, <2>2 DEF Follows
    <3>2. Walk(n)[n - 1] = Walk(n - 1)[n - 1]
      <4>1. n - 1 \in Nat /\ n - 1 \in 0..n /\ n - 1 <= n - 1
        BY <2>2
      <4> QED
        BY <1>1, <4>1, WalkUnique
    <3> QED
      BY <2>2, <3>1, <3>2
  <2> QED
    BY <2>1, <2>2
<1>3. f = body(f)
  BY <1>2
<1>4. Nth = CHOOSE h : h = body(h)
  BY DEF Nth
<1> HIDE DEF f
<1>5. Nth = body(Nth)
  <2> HIDE DEF body
  <2> QED
    BY <1>3, <1>4, Zenon
<1>6. \A n \in Nat : Nth[n] = IF n = 0 THEN free_head ELSE next[Nth[n - 1]]
  BY <1>5
<1>7. \A n \in Nat : n + 1 \in Nat /\ n + 1 # 0 /\ (n + 1) - 1 = n
  OBVIOUS
<1> QED
  BY <1>6, <1>7

-----------------------------------------------------------------------------
(***************************************************************************)
(* The GPU driver: commands go out one at a time, always with descriptors  *)
(* 0 and 1, because freeing them restores the list.                        *)
(***************************************************************************)

FullList == [d \in Descs |-> IF d = QSize - 1 THEN 0 ELSE d + 1]
Zeros == [s \in Descs |-> 0]

NothingAvail == dev_avail = avail_idx
NothingUsed == used_idx = last_used_idx

GpuTypeOK ==
  /\ dev = "gpu" /\ pc \in {"off", "idle", "cmd", "ring", "idx", "notify", "pop"}
  /\ avail_idx \in Idx /\ dev_avail \in Idx /\ used_idx \in Idx /\ last_used_idx \in Idx
  /\ avail_ring = Zeros /\ used_ring = Zeros
  /\ sent \in Nat /\ rsp_buf.ok \in BOOLEAN /\ inits \in Nat
  /\ inits = 0 => pc = "off"

\* No command under way: every descriptor is free, in the list's first order.
GpuFree ==
  pc \in {"off", "idle", "cmd"} /\ inits > 0 =>
    next = FullList /\ free_head = 0 /\ num_free = QSize /\ chained \subseteq {0}

GpuTaken ==
  pc \in {"ring", "idx", "notify", "pop"} =>
    /\ head = 0 /\ chained = {0} /\ next = [FullList EXCEPT ![1] = 0]
    /\ free_head = FullList[1] /\ num_free = QSize - 2
    /\ req_buf = sent

\* The chain is in the available ring, with the device or in the used ring; in
\* the latter case rsp_buf holds the answer to this command.
GpuWhere ==
  /\ pc \notin {"notify", "pop"} => NothingAvail /\ dev_has = {} /\ NothingUsed
  /\ pc \in {"notify", "pop"} =>
       \/ avail_idx = Inc(dev_avail) /\ dev_has = {} /\ NothingUsed
       \/ NothingAvail /\ dev_has = {0} /\ NothingUsed
       \/ /\ NothingAvail /\ dev_has = {} /\ used_idx = Inc(last_used_idx)
          /\ rsp_buf.ok => sent \in done

GpuInv == GpuTypeOK /\ GpuFree /\ GpuTaken /\ GpuWhere /\ trusted \subseteq done

LEMMA QueueFacts ==
  /\ QSize \in Nat \ {0, 1} /\ IdxMod \in Nat /\ QSize < IdxMod
  /\ 0 \in Idx /\ 0 \in Descs /\ 1 \in Descs
  BY VirtqAssumption DEF Idx, Descs

LEMMA IncMoves == ASSUME NEW i \in Idx PROVE Inc(i) # i
<1>1. Inc(i) = (IF i + 1 = IdxMod THEN 0 ELSE i + 1)
  BY IncValue
<1> QED
  BY <1>1, QueueFacts DEF Idx

LEMMA GpuInit == ASSUME VirtioInit, dev = "gpu" PROVE GpuInv
  BY QueueFacts DEF VirtioInit, VirtqInit, GpuInv, GpuTypeOK, GpuFree, GpuTaken, GpuWhere,
                    NothingAvail, NothingUsed, Zeros, NoAnswer

LEMMA GpuSetup == ASSUME GpuInv, Setup PROVE GpuInv'
<1> USE DEF GpuInv, Setup
<1>1. pc' = "cmd" /\ inits' = inits + 1 /\ UNCHANGED <<dev, sent, rsp_buf, done, trusted>>
  BY DEF GpuTypeOK
<1>2. /\ dev_avail' = 0 /\ avail_idx' = 0 /\ dev_has' = {} /\ used_idx' = 0 /\ last_used_idx' = 0
      /\ next' = FullList /\ free_head' = 0 /\ num_free' = QSize /\ chained' = {}
      /\ UNCHANGED <<avail_ring, used_ring>>
  BY DEF QueueSetup, DeviceReset, FreeInit, FullList
<1>3. GpuTypeOK'
  BY <1>1, <1>2, QueueFacts DEF GpuTypeOK
<1> QED
  BY <1>1, <1>2, <1>3 DEF GpuFree, GpuTaken, GpuWhere, NothingAvail, NothingUsed

LEMMA GpuPush == ASSUME GpuInv, PushEntry \/ PushIndex \/ Notify PROVE GpuInv'
<1> USE DEF GpuInv
<1>1. CASE PushEntry
  <2>1. avail_ring' = Zeros
    <3>1. avail_ring' = [avail_ring EXCEPT ![avail_idx % QSize] = 0] /\ avail_ring = Zeros
      BY <1>1 DEF PushEntry, AvailEntry, GpuTaken, GpuTypeOK
    <3> QED
      BY <3>1 DEF Zeros
  <2>2. GpuTypeOK'
    BY <1>1, <2>1 DEF PushEntry, GpuTypeOK, device, gpuVars
  <2> QED
    BY <1>1, <2>2 DEF PushEntry, GpuTypeOK, GpuFree, GpuTaken, GpuWhere, NothingAvail, NothingUsed,
                      freeList, device, gpuVars
<1>2. CASE PushIndex
  <2>1. pc = "idx" /\ pc' = "notify" /\ avail_idx' = Inc(avail_idx) /\ avail_idx' \in Idx
    BY <1>2, IncValue DEF PushIndex, AvailIndex, GpuTypeOK
  <2>2. GpuTypeOK'
    BY <1>2, <2>1 DEF PushIndex, GpuTypeOK, device, gpuVars
  <2> QED
    BY <1>2, <2>1, <2>2 DEF PushIndex, GpuFree, GpuTaken, GpuWhere, NothingAvail, NothingUsed,
                      freeList, device, gpuVars
<1>3. CASE Notify
  <2>1. pc = "notify" /\ pc' = "pop"
    BY <1>3 DEF Notify, GpuTypeOK
  <2> QED
    BY <1>3, <2>1 DEF Notify, GpuTypeOK, GpuFree, GpuTaken, GpuWhere, NothingAvail, NothingUsed,
                      freeList, rings, gpuVars
<1> QED
  BY <1>1, <1>2, <1>3

LEMMA ReturnsTo == ASSUME NEW ok, Returns(ok) PROVE pc' \in {"cmd", "off", "idle"}
  BY Zenon DEF Returns

LEMMA FirstOfList == FullList \in [Descs -> Descs] /\ FullList[0] = 1
  BY QueueFacts DEF FullList, Descs

\* gpu_cmd_sync ends the chain at its second descriptor and, done, puts both back
\* where they were.
LEMMA TakenAndRestored ==
  ASSUME NEW f \in [Descs -> Descs], f[0] = 1, 0 \in Descs, 1 \in Descs
  PROVE  /\ [f EXCEPT ![0] = 1, ![1] = 0] = [f EXCEPT ![1] = 0]
         /\ [[f EXCEPT ![1] = 0] EXCEPT ![1] = f[1], ![0] = 1] = f
<1>1. /\ [f EXCEPT ![0] = 1, ![1] = 0] = [d \in Descs |-> IF d = 1 THEN 0 ELSE f[d]]
      /\ [f EXCEPT ![1] = 0] = [d \in Descs |-> IF d = 1 THEN 0 ELSE f[d]]
  OBVIOUS
<1>2. [[f EXCEPT ![1] = 0] EXCEPT ![1] = f[1], ![0] = 1] = [d \in Descs |-> f[d]]
  OBVIOUS
<1> QED
  BY <1>1, <1>2

LEMMA GpuSend == ASSUME GpuInv, GpuCmd PROVE GpuInv'
<1> USE DEF GpuInv
<1>1. pc = "cmd" /\ inits > 0 /\ QSize \in Nat \ {0, 1}
  BY QueueFacts DEF GpuCmd, GpuTypeOK
<1>2. next = FullList /\ free_head = 0 /\ num_free = QSize /\ chained \subseteq {0}
  BY <1>1 DEF GpuFree
<1>3. Nth[0] = 0 /\ Nth[1] = 1 /\ Nth[2] = FullList[1]
  <2>1. Nth[0] = free_head /\ Nth[0 + 1] = next[Nth[0]] /\ Nth[1 + 1] = next[Nth[1]]
    BY NthValue
  <2> QED
    BY <1>2, <2>1, FirstOfList
<1>4. /\ sent' = sent + 1 /\ head' = 0 /\ free_head' = FullList[1] /\ num_free' = QSize - 2
      /\ next' = [next EXCEPT ![0] = 1, ![1] = 0]
      /\ chained' = (chained \cup {0}) \ {1} /\ req_buf' = sent + 1 /\ pc' = "ring"
      /\ UNCHANGED <<rings, device, dev, inits, rsp_buf, done, trusted>>
  <2>1. ~(num_free < 2)
    BY <1>1, <1>2
  <2>2. /\ sent' = sent + 1 /\ head' = free_head /\ free_head' = Nth[2] /\ num_free' = num_free - 2
        /\ next' = [next EXCEPT ![free_head] = Nth[1], ![Nth[1]] = 0]
        /\ chained' = (chained \cup {free_head}) \ {Nth[1]} /\ req_buf' = sent + 1 /\ pc' = "ring"
        /\ UNCHANGED <<rings, device, dev, inits, rsp_buf, done, trusted>>
    BY <2>1 DEF GpuCmd, AllocDesc
  <2> QED
    BY <1>2, <1>3, <2>2
<1>5. next' = [FullList EXCEPT ![1] = 0] /\ chained' = {0}
  <2>1. next' = [FullList EXCEPT ![1] = 0]
    BY <1>2, <1>4, FirstOfList, TakenAndRestored, QueueFacts
  <2>2. chained' = (chained \cup {0}) \ {1} /\ chained \subseteq {0}
    BY <1>2, <1>4
  <2>3. \A x : x \in chained' <=> x = 0
    <3>1. \A x : x \in {0} => x # 1
      OBVIOUS
    <3> QED
      BY <2>2, <3>1, Zenon
  <2> QED
    BY <2>1, <2>3
<1>6. GpuTypeOK'
  BY <1>1, <1>4 DEF GpuTypeOK, rings, device
<1> QED
  BY <1>1, <1>4, <1>5, <1>6 DEF GpuFree, GpuTaken, GpuWhere, NothingAvail, NothingUsed, rings, device

LEMMA GpuReceive == ASSUME GpuInv, GpuPop PROVE GpuInv'
<1> USE DEF GpuInv
<1>1. pc = "pop" /\ pc' \in {"cmd", "off", "idle"}
  BY ReturnsTo DEF GpuPop
<1>2. /\ head = 0 /\ chained = {0} /\ next = [FullList EXCEPT ![1] = 0]
      /\ free_head = FullList[1] /\ num_free = QSize - 2
  BY <1>1 DEF GpuTaken
<1>3. /\ NothingAvail /\ dev_has = {} /\ used_idx = Inc(last_used_idx)
      /\ rsp_buf.ok => sent \in done
  BY <1>1 DEF GpuPop, GpuWhere, UsedPending, NothingUsed
<1>4. /\ last_used_idx' = used_idx
      /\ UNCHANGED <<avail_ring, avail_idx, used_ring, used_idx, device, dev, inits, sent, rsp_buf,
                     done, chained>>
      /\ trusted' \subseteq trusted \cup (IF rsp_buf.ok THEN {sent} ELSE {})
  BY <1>3 DEF GpuPop, UsedTake, FreeChain
<1>5. next[0] = 1
  BY <1>2, FirstOfList, QueueFacts DEF FullList
<1>6. next' = FullList /\ free_head' = 0 /\ num_free' = QSize
  <2>1. /\ next' = [next EXCEPT ![1] = FullList[1], ![0] = 1]
        /\ free_head' = 0 /\ num_free' = num_free + 2
    BY <1>2, <1>5 DEF GpuPop, FreeChain
  <2> QED
    BY <1>2, <2>1, FirstOfList, TakenAndRestored, QueueFacts
<1>7. GpuTypeOK'
  BY <1>1, <1>4 DEF GpuTypeOK, device
<1>8. trusted' \subseteq done'
  BY <1>3, <1>4
<1> QED
  BY <1>1, <1>2, <1>3, <1>4, <1>6, <1>7, <1>8
     DEF GpuFree, GpuTaken, GpuWhere, NothingAvail, NothingUsed, device

LEMMA GpuTake == ASSUME GpuInv, Take PROVE GpuInv'
<1> USE DEF GpuInv
<1>1. /\ UNCHANGED <<freeList, avail_ring, avail_idx, used_ring, used_idx, last_used_idx, dev, pc,
                     inits, head, sent, req_buf, rsp_buf, done, trusted>>
  BY DEF Take, DevTake, gpuVars
<1>2. CASE NothingAvail
  <2>1. UNCHANGED <<dev_avail, dev_has>>
    BY <1>2 DEF Take, DevTake, NothingAvail
  <2> QED
    BY <1>1, <2>1 DEF GpuTypeOK, GpuFree, GpuTaken, GpuWhere, NothingAvail, NothingUsed, freeList
<1>3. CASE ~NothingAvail
  <2>1. dev_has' = dev_has \cup {avail_ring[dev_avail % QSize]} /\ dev_avail' = Inc(dev_avail)
    BY <1>3 DEF Take, DevTake, NothingAvail
  <2>2. pc \in {"notify", "pop"} /\ avail_idx = Inc(dev_avail) /\ dev_has = {} /\ NothingUsed
    BY <1>3 DEF GpuWhere
  <2>3. avail_ring[dev_avail % QSize] = 0
    <3>1. dev_avail % QSize \in Descs
      BY QueueFacts DEF GpuTypeOK, Idx, Descs
    <3> QED
      BY <3>1 DEF GpuTypeOK, Zeros
  <2>4. dev_avail' \in Idx
    BY <2>1, <2>2 DEF GpuTypeOK
  <2>5. GpuTypeOK'
    BY <1>1, <2>4 DEF GpuTypeOK
  <2> QED
    BY <1>1, <2>1, <2>2, <2>3, <2>5
       DEF GpuFree, GpuTaken, GpuWhere, NothingAvail, NothingUsed, freeList
<1> QED
  BY <1>2, <1>3

LEMMA GpuAnswers == ASSUME GpuInv, GpuAnswer PROVE GpuInv'
<1> USE DEF GpuInv
<1>1. PICK h \in dev_has, ok \in BOOLEAN :
        /\ DevReturn(h)
        /\ rsp_buf' = [num |-> req_buf, ok |-> ok]
        /\ done' = IF ok THEN done \cup {req_buf} ELSE done
  BY DEF GpuAnswer
<1>2. /\ pc \in {"notify", "pop"} /\ NothingAvail /\ dev_has = {0} /\ NothingUsed /\ h = 0
      /\ req_buf = sent
  BY DEF GpuWhere, GpuTaken
<1>3. /\ dev_has' = {} /\ used_idx' = Inc(used_idx)
      /\ used_ring' = [used_ring EXCEPT ![used_idx % QSize] = 0]
      /\ UNCHANGED <<freeList, avail_ring, avail_idx, last_used_idx, dev_avail>>
  BY <1>1, <1>2 DEF DevReturn
<1>4. UNCHANGED <<dev, pc, inits, head, sent, req_buf, trusted>>
  BY DEF GpuAnswer
<1>5. used_ring' = Zeros
  BY <1>3 DEF GpuTypeOK, Zeros
<1>6. used_idx' \in Idx
  BY <1>3, IncValue DEF GpuTypeOK
<1>7. rsp_buf'.ok = ok /\ done \subseteq done' /\ (ok => sent \in done')
  BY <1>1, <1>2
<1>8. GpuTypeOK'
  BY <1>3, <1>4, <1>5, <1>6, <1>7 DEF GpuTypeOK
<1>9. GpuWhere' /\ trusted' \subseteq done'
  BY <1>2, <1>3, <1>4, <1>7 DEF GpuWhere, NothingAvail, NothingUsed
<1> QED
  BY <1>2, <1>3, <1>4, <1>8, <1>9 DEF GpuFree, GpuTaken, freeList

LEMMA GpuStep == ASSUME GpuInv, [VirtioNext]_virtioVars PROVE GpuInv'
<1>0. dev = "gpu"
  BY DEF GpuInv, GpuTypeOK
<1>1. ~RefillDesc /\ ~RefillDone /\ ~InputPop /\ ~InputEvent /\ ~InputDrained /\ ~InputPoll /\ ~KeyEvent
  BY <1>0 DEF RefillDesc, RefillDone, InputPop, InputEvent, InputDrained, InputPoll, KeyEvent, At
<1>2. CASE Present
  BY <1>2 DEF Present, At, GpuInv, GpuTypeOK, GpuFree, GpuTaken, GpuWhere, NothingAvail,
              NothingUsed, queueVars, freeList, device
<1>3. CASE UNCHANGED virtioVars
  BY <1>3 DEF virtioVars, gpuVars, GpuInv, GpuTypeOK, GpuFree, GpuTaken, GpuWhere,
              NothingAvail, NothingUsed, queueVars, freeList, device
<1> QED
  BY <1>1, <1>2, <1>3, GpuSetup, GpuPush, GpuSend, GpuReceive, GpuTake, GpuAnswers
     DEF VirtioNext, Driver

\* A command gpu_cmd_sync reports as done has been done, although the driver
\* looks at nothing but that the used index has moved: for any queue, any number
\* of commands, errors and re-initialisations.
THEOREM TrustedWasDoneHolds == VirtioSpec => []TrustedWasDone
<1> DEFINE Inv == GpuInv \/ (dev = "input" /\ trusted = {})
<1>1. VirtioInit => Inv
  BY GpuInit DEF VirtioInit
<1>2. Inv /\ [VirtioNext]_virtioVars => Inv'
  <2> SUFFICES ASSUME dev = "input", trusted = {}, [VirtioNext]_virtioVars
               PROVE  dev' = "input" /\ trusted' = {}
    BY GpuStep
  <2>1. ~GpuCmd /\ ~GpuPop /\ ~Present /\ ~GpuAnswer
    BY DEF GpuCmd, GpuPop, Present, GpuAnswer, At
  <2> QED
    BY <2>1 DEF VirtioNext, Driver, Setup, PushEntry, PushIndex, Notify, RefillDesc, RefillDone,
                InputPop, InputEvent, InputDrained, InputPoll, Take, KeyEvent, gpuVars, virtioVars
<1>3. Inv => TrustedWasDone
  BY DEF GpuInv, TrustedWasDone
<1> HIDE DEF Inv
<1> QED
  BY <1>1, <1>2, <1>3, PTL DEF VirtioSpec

-----------------------------------------------------------------------------
(***************************************************************************)
(* Who has a descriptor: what it takes to show Partitioned.                *)
(***************************************************************************)

\* As many elements as places, if no two places hold the same.
LEMMA DistinctCount ==
  ASSUME NEW n \in Nat, NEW T, NEW f \in [1..n -> T],
         \A i, j \in 1..n : f[i] = f[j] => i = j, \A t \in T : \E i \in 1..n : f[i] = t
  PROVE  Cardinality(T) = n
<1>1. f \in [1..n -> T] /\ \A t \in T : \E i \in 1..n : f[i] = t
  OBVIOUS
<1>2. f \in Bijection(1..n, T)
  <2>1. f \in Injection(1..n, T)
    BY <1>1 DEF Injection, IsInjective
  <2>2. f \in Surjection(1..n, T)
    BY <1>1 DEF Surjection
  <2> QED
    BY <2>1, <2>2 DEF Bijection
<1>3. ExistsBijection(1..n, T)
  BY <1>2 DEF ExistsBijection
<1> QED
  BY <1>3, FS_CountingElements

\* The entry k places after index i, as AvailSeq and UsedSeq find it.
Slot(i, k) == (i + k - 1) % QSize

LEMMA SlotIsDesc == ASSUME NEW i \in Idx, NEW k \in Nat \ {0} PROVE Slot(i, k) \in Descs
<1>1. i + k - 1 \in Nat /\ QSize \in Nat \ {0}
  BY QueueFacts DEF Idx
<1> QED
  BY <1>1 DEF Slot, Descs

\* q lists the entries of a ring from index lo up to hi.
IsWindow(q, ring, lo, hi) == q = [k \in 1..Ahead(hi, lo) |-> ring[(lo + k - 1) % QSize]]

LEMMA WindowSeq ==
  ASSUME NEW ring \in [Descs -> Descs], NEW lo \in Idx, NEW hi \in Idx, NEW q, IsWindow(q, ring, lo, hi)
  PROVE  /\ Ahead(hi, lo) \in Nat
         /\ q \in Seq(Descs) /\ q \in [1..Ahead(hi, lo) -> Descs] /\ Len(q) = Ahead(hi, lo)
         /\ \A k \in 1..Ahead(hi, lo) : q[k] = ring[Slot(lo, k)]
<1>1. Ahead(hi, lo) \in Nat
  BY AheadValue DEF Idx
<1> DEFINE n == Ahead(hi, lo)
<1>2. n \in Nat /\ q = [k \in 1..n |-> ring[(lo + k - 1) % QSize]]
  BY <1>1 DEF IsWindow
<1> HIDE DEF n
<1>3. q \in Seq(Descs) /\ q \in [1..n -> Descs] /\ Len(q) = n /\ \A k \in 1..n : q[k] = ring[Slot(lo, k)]
  <2>1. \A k \in 1..n : (lo + k - 1) % QSize = Slot(lo, k) /\ Slot(lo, k) \in Descs
    BY <1>2, SlotIsDesc DEF Slot
  <2>2. q \in [1..n -> Descs] /\ \A k \in 1..n : q[k] = ring[Slot(lo, k)]
    BY <1>2, <2>1
  <2> QED
    BY <1>2, <2>2
<1> QED
  BY <1>1, <1>3 DEF n

LEMMA FivePlaces ==
  ASSUME NEW F, NEW H, NEW A, NEW D, NEW U, NEW places, places = <<F, H, A, D, U>>,
         F \cap H = {}, F \cap A = {}, F \cap D = {}, F \cap U = {}, H \cap A = {}, H \cap D = {},
         H \cap U = {}, A \cap D = {}, A \cap U = {}, D \cap U = {}
  PROVE  /\ UNION Elements(places) = F \cup H \cup A \cup D \cup U
         /\ \A i, j \in 1..Len(places) : i # j => places[i] \cap places[j] = {}
<1>1. /\ Len(places) = 5 /\ places[1] = F /\ places[2] = H /\ places[3] = A /\ places[4] = D
      /\ places[5] = U
  OBVIOUS
<1>2. \A i \in 1..5 : i = 1 \/ i = 2 \/ i = 3 \/ i = 4 \/ i = 5
  OBVIOUS
<1>3. Elements(places) = {F, H, A, D, U}
  BY <1>1, <1>2 DEF Elements
<1>4. UNION Elements(places) = F \cup H \cup A \cup D \cup U
  BY <1>3
<1>5. \A X, Y : X \cap Y = {} => Y \cap X = {}
  OBVIOUS
<1>6. \A i, j \in 1..5 : i # j => places[i] \cap places[j] = {}
  BY <1>1, <1>2, <1>5
<1> QED
  BY <1>1, <1>4, <1>6

Separate(F, H, A, D, U) ==
  /\ F \cap H = {} /\ F \cap A = {} /\ F \cap D = {} /\ F \cap U = {} /\ H \cap A = {}
  /\ H \cap D = {} /\ H \cap U = {} /\ A \cap D = {} /\ A \cap U = {} /\ D \cap U = {}
  /\ F \cup H \cup A \cup D \cup U = Descs

NoneTwice ==
  /\ num_free \in Nat /\ \A i, j \in 0..num_free-1 : Nth[i] = Nth[j] => i = j
  /\ Cardinality(Elements(AvailSeq)) = Len(AvailSeq)
  /\ Cardinality(Elements(UsedSeq)) = Len(UsedSeq)

LEMMA PartitionedIf ==
  ASSUME NEW held, NoneTwice,
         Separate(FreeSet, held, Chains(Elements(AvailSeq)), Chains(dev_has),
                  Chains(Elements(UsedSeq)))
  PROVE  Partitioned(held)
<1> DEFINE A == Chains(Elements(AvailSeq))
           D == Chains(dev_has)
           U == Chains(Elements(UsedSeq))
<1>0. num_free \in Nat /\ \A i, j \in 0..num_free-1 : Nth[i] = Nth[j] => i = j
  BY DEF NoneTwice
<1>1. Cardinality(FreeSet) = num_free
  <2> DEFINE f == [i \in 1..num_free |-> Nth[i - 1]]
  <2>1. \A n \in 0..num_free-1 : n + 1 \in 1..num_free /\ f[n + 1] = Nth[n]
    BY <1>0
  <2>2. \A i \in 1..num_free : i - 1 \in 0..num_free-1 /\ f[i] = Nth[i - 1]
    BY <1>0
  <2>3. f \in [1..num_free -> FreeSet]
    BY <1>0, <2>2 DEF FreeSet
  <2>4. \A i, j \in 1..num_free : f[i] = f[j] => i = j
    BY <1>0, <2>2
  <2>5. \A t \in FreeSet : \E i \in 1..num_free : f[i] = t
    BY <2>1 DEF FreeSet
  <2> HIDE DEF f
  <2> QED
    BY <1>0, <2>3, <2>4, <2>5, DistinctCount
<1> DEFINE places == <<FreeSet, held, A, D, U>>
<1>2. /\ UNION Elements(places) = Descs
      /\ \A i, j \in 1..Len(places) : i # j => places[i] \cap places[j] = {}
  <2>1. places = <<FreeSet, held, A, D, U>> /\ Separate(FreeSet, held, A, D, U)
    OBVIOUS
  <2> HIDE DEF places, A, D, U
  <2>2. /\ UNION Elements(places) = FreeSet \cup held \cup A \cup D \cup U
        /\ \A i, j \in 1..Len(places) : i # j => places[i] \cap places[j] = {}
    BY <2>1, FivePlaces DEF Separate
  <2> QED
    BY <2>1, <2>2 DEF Separate
<1>3. places = <<FreeSet, held, Chains(Elements(AvailSeq)), Chains(dev_has),
                 Chains(Elements(UsedSeq))>>
  OBVIOUS
<1> QED
  BY <1>1, <1>2, <1>3, Zenon DEF Partitioned, NoneTwice

\* A stretch of the list that goes up by one.
LEMMA NthRun ==
  ASSUME NEW a \in Nat, NEW m \in Nat, m > 0 => free_head = a,
         \A d \in a..a+m-2 : next[d] = d + 1, m = num_free
  PROVE  /\ \A n \in 0..m-1 : Nth[n] = a + n
         /\ FreeSet = a..a+m-1
         /\ \A i, j \in 0..num_free-1 : Nth[i] = Nth[j] => i = j
<1>1. \A n \in 0..m-1 : Nth[n] = a + n
  <2> DEFINE bad == {n \in 0..m-1 : Nth[n] # a + n}
  <2> SUFFICES ASSUME bad # {} PROVE FALSE
    OBVIOUS
  <2>0. bad \subseteq Nat
    OBVIOUS
  <2>1. PICK n \in bad : \A k \in bad : n <= k
    BY <2>0, SmallestOf
  <2>2. n # 0
    BY <2>1, NthValue
  <2>3. n - 1 \in 0..m-1 /\ n - 1 \notin bad /\ (n - 1) + 1 = n
    BY <2>1, <2>2
  <2>4. Nth[n - 1] = a + (n - 1) /\ Nth[(n - 1) + 1] = next[Nth[n - 1]]
    BY <2>3, NthValue
  <2>5. a + (n - 1) \in a..a+m-2
    BY <2>1, <2>2
  <2>6. next[a + (n - 1)] = (a + (n - 1)) + 1
    BY <2>5
  <2>7. Nth[n] = (a + (n - 1)) + 1
    BY <2>3, <2>4, <2>6
  <2> QED
    BY <2>1, <2>7
<1>2. FreeSet = a..a+m-1
  <2>1. \A x \in a..a+m-1 : x - a \in 0..num_free-1 /\ Nth[x - a] = x
    BY <1>1
  <2>2. \A n \in 0..num_free-1 : Nth[n] \in a..a+m-1
    BY <1>1
  <2> QED
    BY <2>1, <2>2 DEF FreeSet
<1> QED
  BY <1>1, <1>2

LEMMA NoEntries ==
  ASSUME NEW q, q \in Seq(Descs), Len(q) = 0
  PROVE  Elements(q) = {} /\ Cardinality(Elements(q)) = Len(q) /\ Chains(Elements(q)) = {}
<1>1. Elements(q) = {}
  BY DEF Elements
<1> QED
  BY <1>1, FS_EmptySet DEF Chains

LEMMA OneEntry ==
  ASSUME NEW q, NEW h, q \in Seq(Descs), Len(q) = 1, q[1] = h
  PROVE  Elements(q) = {h} /\ Cardinality(Elements(q)) = Len(q) /\ Chains(Elements(q)) = Chain(h)
<1>1. Elements(q) = {h}
  BY DEF Elements
<1>2. Chains({h}) = Chain(h)
  BY DEF Chains
<1>3. Cardinality({h}) = 1
  BY FS_Singleton
<1> QED
  BY <1>1, <1>2, <1>3

\* What lies in the GPU's rings.
LEMMA GpuRings ==
  ASSUME GpuTypeOK
  PROVE  /\ AvailSeq \in Seq(Descs) /\ UsedSeq \in Seq(Descs)
         /\ NothingAvail => Len(AvailSeq) = 0
         /\ NothingUsed => Len(UsedSeq) = 0
         /\ avail_idx = Inc(dev_avail) => Len(AvailSeq) = 1 /\ AvailSeq[1] = 0
         /\ used_idx = Inc(last_used_idx) => Len(UsedSeq) = 1 /\ UsedSeq[1] = 0
<1> USE DEF GpuTypeOK
<1>1. Zeros \in [Descs -> Descs] /\ \A d \in Descs : Zeros[d] = 0
  BY QueueFacts DEF Zeros
<1>2. ASSUME NEW i \in Idx, NEW j \in Idx, NEW q, IsWindow(q, Zeros, j, i)
      PROVE  /\ q \in Seq(Descs)
             /\ i = j => Len(q) = 0
             /\ i = Inc(j) => Len(q) = 1 /\ q[1] = 0
  <2>1. Ahead(i, j) \in Nat
    BY AheadValue DEF Idx
  <2>2. q \in Seq(Descs) /\ Len(q) = Ahead(i, j) /\ \A k \in 1..Ahead(i, j) : q[k] = Zeros[Slot(j, k)]
    BY <1>1, <1>2, WindowSeq
  <2>3. i = j => Ahead(i, j) = 0
    BY AheadInc
  <2>4. i = Inc(j) => Ahead(i, j) = 1
    <3>1. Ahead(j, j) = 0 /\ 0 + 1 < IdxMod
      BY AheadInc, QueueFacts
    <3> QED
      BY <3>1, AheadInc
  <2>5. Slot(j, 1) \in Descs
    BY SlotIsDesc
  <2> QED
    BY <1>1, <2>2, <2>3, <2>4, <2>5
<1>3. /\ IsWindow(AvailSeq, Zeros, dev_avail, avail_idx)
      /\ IsWindow(UsedSeq, Zeros, last_used_idx, used_idx)
  BY DEF AvailSeq, UsedSeq, IsWindow
<1>4. /\ AvailSeq \in Seq(Descs) /\ (avail_idx = dev_avail => Len(AvailSeq) = 0)
      /\ avail_idx = Inc(dev_avail) => Len(AvailSeq) = 1 /\ AvailSeq[1] = 0
  BY <1>2, <1>3
<1>5. /\ UsedSeq \in Seq(Descs) /\ (used_idx = last_used_idx => Len(UsedSeq) = 0)
      /\ used_idx = Inc(last_used_idx) => Len(UsedSeq) = 1 /\ UsedSeq[1] = 0
  BY <1>2, <1>3
<1> QED
  BY <1>4, <1>5 DEF NothingAvail, NothingUsed

LEMMA GpuOwners == GpuInv => OneOwner
<1> SUFFICES ASSUME GpuInv, inits > 0 PROVE Partitioned(Held)
  BY DEF OneOwner
<1> USE DEF GpuInv
<1>0. /\ AvailSeq \in Seq(Descs) /\ UsedSeq \in Seq(Descs)
      /\ NothingAvail => Len(AvailSeq) = 0
      /\ NothingUsed => Len(UsedSeq) = 0
      /\ avail_idx = Inc(dev_avail) => Len(AvailSeq) = 1 /\ AvailSeq[1] = 0
      /\ used_idx = Inc(last_used_idx) => Len(UsedSeq) = 1 /\ UsedSeq[1] = 0
  BY GpuRings
<1>1. QSize \in Nat \ {0, 1} /\ Descs = 0..QSize-1 /\ Chains({}) = {}
  BY QueueFacts DEF Descs, Chains
<1> DEFINE C == Chains(Elements(AvailSeq))
           V == Chains(Elements(UsedSeq))
           EmptyRings == /\ Chains(Elements(AvailSeq)) = {} /\ Chains(Elements(UsedSeq)) = {}
                         /\ Cardinality(Elements(AvailSeq)) = Len(AvailSeq)
                         /\ Cardinality(Elements(UsedSeq)) = Len(UsedSeq)
<1>2. CASE pc \in {"off", "idle", "cmd"}
  <2>1. /\ next = FullList /\ free_head = 0 /\ num_free = QSize
        /\ NothingAvail /\ dev_has = {} /\ NothingUsed
    BY <1>2 DEF GpuFree, GpuWhere
  <2>2. EmptyRings
    BY <1>0, <2>1, NoEntries
  <2>3. FreeSet = 0..0+QSize-1 /\ \A i, j \in 0..num_free-1 : Nth[i] = Nth[j] => i = j
    <3>1. \A d \in 0..0+QSize-2 : next[d] = d + 1
      BY <1>1, <2>1 DEF FullList
    <3> QED
      BY <1>1, <2>1, <3>1, NthRun
  <2>4. Held = {} /\ FreeSet = Descs
    BY <1>1, <1>2, <2>3 DEF Held
  <2>5. NoneTwice
    BY <1>1, <2>1, <2>2, <2>3 DEF NoneTwice
  <2>6. Separate(FreeSet, Held, C, Chains(dev_has), V)
    BY <1>1, <2>1, <2>2, <2>4 DEF Separate
  <2> QED
    BY <2>5, <2>6, PartitionedIf
<1>3. CASE pc \in {"ring", "idx", "notify", "pop"}
  <2>1. /\ head = 0 /\ chained = {0} /\ next = [FullList EXCEPT ![1] = 0]
        /\ free_head = FullList[1] /\ num_free = QSize - 2
    BY <1>3 DEF GpuTaken
  <2>2. Chain(0) = {0, 1}
    <3>1. next[0] = 1
      BY <1>1, <2>1 DEF FullList
    <3> QED
      BY <2>1, <3>1 DEF Chain
  <2>3. FreeSet = 2..QSize-1 /\ \A i, j \in 0..num_free-1 : Nth[i] = Nth[j] => i = j
    <3>1. \A d \in 2..2+(QSize-2)-2 : next[d] = d + 1
      BY <1>1, <2>1 DEF FullList
    <3>2. QSize - 2 > 0 => free_head = 2
      BY <1>1, <2>1 DEF FullList
    <3>3. FreeSet = 2..2+(QSize-2)-1 /\ \A i, j \in 0..num_free-1 : Nth[i] = Nth[j] => i = j
      BY <1>1, <2>1, <3>1, <3>2, NthRun
    <3>4. 2+(QSize-2)-1 = QSize-1
      BY <1>1
    <3> QED
      BY <3>3, <3>4
  <2>4. FreeSet \cap {0, 1} = {} /\ FreeSet \cup {0, 1} = Descs
    BY <1>1, <2>3
  <2>5. num_free \in Nat
    BY <1>1, <2>1
  <2>6. CASE pc \in {"ring", "idx"}
    <3>1. NothingAvail /\ dev_has = {} /\ NothingUsed
      BY <2>6 DEF GpuWhere
    <3>2. EmptyRings
      BY <1>0, <3>1, NoEntries
    <3>3. Held = {0, 1}
      BY <2>1, <2>2, <2>6 DEF Held
    <3>4. NoneTwice
      BY <2>3, <2>5, <3>2 DEF NoneTwice
    <3>5. Separate(FreeSet, Held, C, Chains(dev_has), V)
      BY <1>1, <2>4, <3>1, <3>2, <3>3 DEF Separate
    <3> QED
      BY <3>4, <3>5, PartitionedIf
  <2>7. CASE pc \in {"notify", "pop"}
    <3>1. Held = {}
      BY <2>7 DEF Held
    <3>2. CASE avail_idx = Inc(dev_avail) /\ dev_has = {} /\ NothingUsed
      <4>1. /\ Chains(Elements(AvailSeq)) = {0, 1} /\ Chains(Elements(UsedSeq)) = {}
            /\ Cardinality(Elements(AvailSeq)) = Len(AvailSeq)
            /\ Cardinality(Elements(UsedSeq)) = Len(UsedSeq)
        BY <1>0, <2>2, <3>2, NoEntries, OneEntry
      <4>3. NoneTwice
        BY <2>3, <2>5, <4>1 DEF NoneTwice
      <4>4. Separate(FreeSet, Held, C, Chains(dev_has), V)
        BY <1>1, <2>4, <3>1, <3>2, <4>1 DEF Separate
      <4> QED
        BY <4>3, <4>4, PartitionedIf
    <3>3. CASE NothingAvail /\ dev_has = {0} /\ NothingUsed
      <4>1. EmptyRings
        BY <1>0, <3>3, NoEntries
      <4>2. Chains(dev_has) = {0, 1}
        BY <2>2, <3>3 DEF Chains
      <4>3. NoneTwice
        BY <2>3, <2>5, <4>1 DEF NoneTwice
      <4>4. Separate(FreeSet, Held, C, Chains(dev_has), V)
        BY <1>1, <2>4, <3>1, <4>1, <4>2 DEF Separate
      <4> QED
        BY <4>3, <4>4, PartitionedIf
    <3>4. CASE NothingAvail /\ dev_has = {} /\ used_idx = Inc(last_used_idx)
      <4>1. /\ Chains(Elements(AvailSeq)) = {} /\ Chains(Elements(UsedSeq)) = {0, 1}
            /\ Cardinality(Elements(AvailSeq)) = Len(AvailSeq)
            /\ Cardinality(Elements(UsedSeq)) = Len(UsedSeq)
        BY <1>0, <2>2, <3>4, NoEntries, OneEntry
      <4>3. NoneTwice
        BY <2>3, <2>5, <4>1 DEF NoneTwice
      <4>4. Separate(FreeSet, Held, C, Chains(dev_has), V)
        BY <1>1, <2>4, <3>1, <3>4, <4>1 DEF Separate
      <4> QED
        BY <4>3, <4>4, PartitionedIf
    <3> QED
      BY <2>7, <3>2, <3>3, <3>4 DEF GpuWhere
  <2> QED
    BY <1>3, <2>6, <2>7
<1> QED
  BY <1>2, <1>3 DEF GpuTypeOK

-----------------------------------------------------------------------------
(***************************************************************************)
(* Slots of a ring.                                                        *)
(***************************************************************************)

LEMMA ModUnique ==
  ASSUME NEW Q \in Nat \ {0}, NEW q \in Int, NEW r \in 0..Q-1, NEW x \in Int, x = q * Q + r
  PROVE  x % Q = r
  OBVIOUS

LEMMA ModSplit ==
  ASSUME NEW Q \in Nat, Q > 0, NEW x \in Nat
  PROVE  x \div Q \in Nat /\ x % Q \in 0..Q-1 /\ x = (x \div Q) * Q + (x % Q)
<1>1. x \div Q \in Nat /\ x % Q \in 0..Q-1
  OBVIOUS
<1>2. x = (x \div Q) * Q + (x % Q)
  BY <1>1
<1> QED
  BY <1>1, <1>2

\* The size divides the range of the indices: wrapping does not change the slot.
LEMMA WrapKeepsSlot == ASSUME NEW x \in Nat PROVE (x + IdxMod) % QSize = x % QSize
<1> DEFINE q == x \div QSize
           m == IdxMod \div QSize
           r == x % QSize
<1>1. QSize \in Nat /\ QSize > 0 /\ IdxMod \in Nat /\ IdxMod % QSize = 0
  BY VirtqAssumption
<1>2. q \in Nat /\ r \in 0..QSize-1 /\ x = q * QSize + r
  BY <1>1, ModSplit
<1>3. m \in Nat /\ IdxMod = m * QSize + 0
  BY <1>1, ModSplit
<1> HIDE DEF q, m, r
<1>4. (q + m) * QSize = q * QSize + m * QSize /\ q + m \in Int
  BY <1>1, <1>2, <1>3
<1>5. x + IdxMod = (q + m) * QSize + r /\ x + IdxMod \in Int
  BY <1>1, <1>2, <1>3, <1>4
<1>6. ASSUME NEW y \in Int, NEW p \in Int, y = p * QSize + r PROVE y % QSize = r
  BY <1>1, <1>2, <1>6, ModUnique
<1>7. (x + IdxMod) % QSize = r
  BY <1>4, <1>5, <1>6
<1> QED
  BY <1>7 DEF r

LEMMA SameSlot ==
  ASSUME NEW x \in Nat, NEW t \in 0..QSize-1, x % QSize = (x + t) % QSize
  PROVE  t = 0
<1> DEFINE q == x \div QSize
           r == x % QSize
<1>1. QSize \in Nat \ {0}
  BY VirtqAssumption
<1>2. q \in Nat /\ r \in 0..QSize-1 /\ x = q * QSize + r
  BY <1>1, ModSplit
<1>3. (x + t) % QSize = r
  OBVIOUS
<1> HIDE DEF q, r
<1>4. CASE r + t < QSize
  <2>1. x + t = q * QSize + (r + t) /\ r + t \in 0..QSize-1
    BY <1>1, <1>2, <1>4
  <2>2. (x + t) % QSize = r + t
    BY <1>1, <1>2, <2>1, ModUnique
  <2> QED
    BY <1>2, <1>3, <2>2
<1>5. CASE r + t >= QSize
  <2>1. (q + 1) * QSize = q * QSize + QSize
    BY <1>1, <1>2
  <2>2. x + t = (q + 1) * QSize + (r + t - QSize) /\ r + t - QSize \in 0..QSize-1
    BY <1>1, <1>2, <1>5, <2>1
  <2>3. (x + t) % QSize = r + t - QSize
    BY <1>1, <1>2, <2>2, ModUnique
  <2> QED
    BY <1>1, <1>2, <1>3, <2>3
<1> QED
  BY <1>1, <1>2, <1>4, <1>5

LEMMA SlotInjective ==
  ASSUME NEW lo \in Idx, NEW j \in 1..QSize, NEW k \in 1..QSize, Slot(lo, j) = Slot(lo, k)
  PROVE  j = k
<1>0. lo \in Nat /\ QSize \in Nat
  BY QueueFacts DEF Idx
<1>1. CASE j <= k
  <2>1. lo + j - 1 \in Nat /\ k - j \in 0..QSize-1 /\ (lo + j - 1) + (k - j) = lo + k - 1
    BY <1>0, <1>1
  <2>2. k - j = 0
    BY <2>1, SameSlot DEF Slot
  <2> QED
    BY <1>0, <2>2
<1>2. CASE k <= j
  <2>1. lo + k - 1 \in Nat /\ j - k \in 0..QSize-1 /\ (lo + k - 1) + (j - k) = lo + j - 1
    BY <1>0, <1>2
  <2>2. j - k = 0
    BY <2>1, SameSlot DEF Slot
  <2> QED
    BY <1>0, <2>2
<1> QED
  BY <1>0, <1>1, <1>2

LEMMA SlotMoves ==
  ASSUME NEW lo \in Idx, NEW hi \in Idx
  PROVE  /\ Slot(lo, 1) = lo % QSize
         /\ Slot(lo, Ahead(hi, lo) + 1) = hi % QSize
         /\ \A k \in Nat \ {0} : Slot(Inc(lo), k) = Slot(lo, k + 1)
<1>0. lo \in Nat /\ hi \in Nat /\ IdxMod \in Nat
  BY QueueFacts DEF Idx
<1>1. Slot(lo, 1) = lo % QSize
  <2>1. lo + 1 - 1 = lo
    BY <1>0
  <2> QED
    BY <2>1 DEF Slot
<1>2. Slot(lo, Ahead(hi, lo) + 1) = hi % QSize
  <2>1. CASE lo <= hi
    <3>1. lo + (Ahead(hi, lo) + 1) - 1 = hi
      BY <1>0, <2>1, AheadValue
    <3> QED
      BY <3>1 DEF Slot
  <2>2. CASE hi < lo
    <3>1. lo + (Ahead(hi, lo) + 1) - 1 = hi + IdxMod
      BY <1>0, <2>2, AheadValue
    <3> QED
      BY <1>0, <3>1, WrapKeepsSlot DEF Slot
  <2> QED
    BY <1>0, <2>1, <2>2
<1>3. ASSUME NEW k \in Nat \ {0} PROVE Slot(Inc(lo), k) = Slot(lo, k + 1)
  <2>1. CASE lo + 1 = IdxMod
    <3>1. Inc(lo) + k - 1 = k - 1 /\ k - 1 \in Nat /\ lo + (k + 1) - 1 = (k - 1) + IdxMod
      BY <1>0, <2>1, IncValue
    <3> QED
      BY <3>1, WrapKeepsSlot DEF Slot
  <2>2. CASE lo + 1 # IdxMod
    <3>1. Inc(lo) + k - 1 = lo + (k + 1) - 1
      BY <1>0, <2>2, IncValue
    <3> QED
      BY <3>1 DEF Slot
  <2> QED
    BY <2>1, <2>2
<1> QED
  BY <1>1, <1>2, <1>3

-----------------------------------------------------------------------------
(***************************************************************************)
(* The entries of a ring between two indices.                              *)
(***************************************************************************)

Entries(ring, lo, hi) == {ring[Slot(lo, k)] : k \in 1..Ahead(hi, lo)}

Distinct(ring, lo, hi) ==
  \A j, k \in 1..Ahead(hi, lo) : ring[Slot(lo, j)] = ring[Slot(lo, k)] => j = k

\* One more goes in when a descriptor is elsewhere.
LEMMA RingRoom ==
  ASSUME NEW ring \in [Descs -> Descs], NEW lo \in Idx, NEW hi \in Idx, NEW d \in Descs,
         Distinct(ring, lo, hi), d \notin Entries(ring, lo, hi)
  PROVE  Ahead(hi, lo) < QSize
<1> DEFINE n == Ahead(hi, lo)
           S == Descs \ {d}
<1>0. n \in Nat /\ QSize \in Nat /\ QSize > 0
  BY AheadValue, QueueFacts DEF Idx
<1> SUFFICES ASSUME n >= QSize PROVE FALSE
  BY <1>0
<1>1. IsFiniteSet(S) /\ Cardinality(S) = QSize - 1
  <2>1. IsFiniteSet(Descs) /\ Cardinality(Descs) = QSize
    <3>1. 0 \in Int /\ QSize - 1 \in Int /\ ~(0 > QSize - 1) /\ (QSize - 1) - 0 + 1 = QSize
      BY <1>0
    <3> QED
      BY <3>1, FS_Interval DEF Descs
  <2> QED
    BY <2>1, FS_RemoveElement
<1>2. IsFiniteSet(1..n) /\ Cardinality(1..n) = n
  <2>1. 1 \in Int /\ n \in Int /\ ~(1 > n) /\ n - 1 + 1 = n
    BY <1>0
  <2> QED
    BY <2>1, FS_Interval
<1> DEFINE f == [k \in 1..n |-> ring[Slot(lo, k)]]
<1>3. \A k \in 1..n : Slot(lo, k) \in Descs /\ ring[Slot(lo, k)] # d
  BY <1>0, SlotIsDesc DEF Entries
<1>4. f \in [1..n -> S]
  BY <1>3
<1>5. \A j, k \in 1..n : f[j] = f[k] => j = k
  BY DEF Distinct
<1> HIDE DEF n, S, f
<1>6. Cardinality(S) < Cardinality(1..n)
  BY <1>0, <1>1, <1>2
<1>7. \E j, k \in 1..n : j # k /\ f[j] = f[k]
  BY <1>1, <1>2, <1>4, <1>6, FS_PigeonHole
<1> QED
  BY <1>5, <1>7

\* g is f with v at x.
Updated(g, f, x, v) == g = [f EXCEPT ![x] = v]

\* Writing the entry before the index moves disturbs none of the others.
LEMMA RingWrite ==
  ASSUME NEW ring \in [Descs -> Descs], NEW lo \in Idx, NEW hi \in Idx, NEW d \in Descs,
         Ahead(hi, lo) < QSize, NEW new, Updated(new, ring, hi % QSize, d)
  PROVE  /\ new \in [Descs -> Descs] /\ new[hi % QSize] = d
         /\ \A k \in 1..Ahead(hi, lo) : new[Slot(lo, k)] = ring[Slot(lo, k)]
<1> DEFINE n == Ahead(hi, lo)
<1>0. n \in Nat /\ QSize \in Nat /\ n < QSize /\ new = [ring EXCEPT ![hi % QSize] = d]
  BY AheadValue, QueueFacts DEF Idx, Updated
<1>1. Slot(lo, n + 1) = hi % QSize
  BY SlotMoves
<1>2. hi % QSize \in Descs
  BY <1>0, <1>1, SlotIsDesc
<1>3. ASSUME NEW k \in 1..n PROVE Slot(lo, k) # Slot(lo, n + 1) /\ Slot(lo, k) \in Descs
  <2>1. k \in 1..QSize /\ n + 1 \in 1..QSize /\ k # n + 1 /\ k \in Nat \ {0}
    BY <1>0
  <2> QED
    BY <2>1, SlotInjective, SlotIsDesc
<1> QED
  BY <1>0, <1>1, <1>2, <1>3

\* Only the entries between the indices matter.
LEMMA RingSame ==
  ASSUME NEW ring, NEW new, NEW lo, NEW hi,
         \A k \in 1..Ahead(hi, lo) : new[Slot(lo, k)] = ring[Slot(lo, k)]
  PROVE  /\ Entries(new, lo, hi) = Entries(ring, lo, hi)
         /\ Distinct(ring, lo, hi) => Distinct(new, lo, hi)
  BY DEF Entries, Distinct

\* The index moves past an entry that was not there.
LEMMA RingGrow ==
  ASSUME NEW ring \in [Descs -> Descs], NEW lo \in Idx, NEW hi \in Idx, NEW d,
         Ahead(hi, lo) < QSize, ring[hi % QSize] = d,
         Distinct(ring, lo, hi), d \notin Entries(ring, lo, hi)
  PROVE  /\ Entries(ring, lo, Inc(hi)) = Entries(ring, lo, hi) \cup {d}
         /\ Distinct(ring, lo, Inc(hi))
<1> DEFINE n == Ahead(hi, lo)
<1>0. n \in Nat /\ n + 1 < IdxMod
  BY AheadValue, QueueFacts DEF Idx
<1>1. Ahead(Inc(hi), lo) = n + 1
  BY <1>0, AheadInc
<1>2. ring[Slot(lo, n + 1)] = d
  BY SlotMoves
<1> HIDE DEF n
<1>3. \A k \in 1..n+1 : k \in 1..n \/ k = n + 1
  BY <1>0
<1>4. \A k \in 1..n : k \in 1..n+1
  BY <1>0
<1>5. n + 1 \in 1..n+1
  BY <1>0
<1>6. \A k \in 1..n : ring[Slot(lo, k)] # d
  BY DEF Entries, n
<1>7. Entries(ring, lo, Inc(hi)) = Entries(ring, lo, hi) \cup {d}
  <2>1. Entries(ring, lo, Inc(hi)) = {ring[Slot(lo, k)] : k \in 1..n+1}
    BY <1>1 DEF Entries
  <2>2. Entries(ring, lo, hi) = {ring[Slot(lo, k)] : k \in 1..n}
    BY DEF Entries, n
  <2> QED
    BY <1>2, <1>3, <1>4, <1>5, <2>1, <2>2, Zenon
<1>8. Distinct(ring, lo, Inc(hi))
  <2>1. \A j, k \in 1..n : ring[Slot(lo, j)] = ring[Slot(lo, k)] => j = k
    BY DEF Distinct, n
  <2> QED
    BY <1>1, <1>2, <1>3, <1>6, <2>1, Zenon DEF Distinct
<1> QED
  BY <1>7, <1>8

\* The reader moves past the oldest entry.
LEMMA RingTake ==
  ASSUME NEW ring, NEW lo \in Idx, NEW hi \in Idx, NEW d, lo # hi, d = ring[lo % QSize],
         Distinct(ring, lo, hi)
  PROVE  /\ d \in Entries(ring, lo, hi)
         /\ Entries(ring, Inc(lo), hi) = Entries(ring, lo, hi) \ {d}
         /\ Distinct(ring, Inc(lo), hi)
<1> DEFINE n == Ahead(hi, lo)
<1>0. n \in Nat /\ n # 0
  BY AheadValue, AheadInc DEF Idx
<1>1. Ahead(hi, Inc(lo)) = n - 1
  BY AheadInc
<1>2. Slot(lo, 1) = lo % QSize /\ \A k \in Nat \ {0} : Slot(Inc(lo), k) = Slot(lo, k + 1)
  BY SlotMoves
<1>3. \A j, k \in 1..n : ring[Slot(lo, j)] = ring[Slot(lo, k)] => j = k
  BY DEF Distinct
<1> HIDE DEF n
<1>4. /\ 1 \in 1..n
      /\ \A k \in 1..n-1 : k + 1 \in 1..n /\ k + 1 # 1 /\ k \in Nat \ {0}
      /\ \A k \in 1..n : k # 1 => k - 1 \in 1..n-1 /\ (k - 1) + 1 = k
      /\ \A j, k \in 1..n-1 : j + 1 = k + 1 => j = k
  BY <1>0
<1>5. \A k \in 1..n-1 : ring[Slot(Inc(lo), k)] = ring[Slot(lo, k + 1)]
  BY <1>2, <1>4
<1>6. /\ Entries(ring, lo, hi) = {ring[Slot(lo, k)] : k \in 1..n}
      /\ Entries(ring, Inc(lo), hi) = {ring[Slot(Inc(lo), k)] : k \in 1..n-1}
  BY <1>1 DEF Entries, n
<1>7. d = ring[Slot(lo, 1)]
  BY <1>2
<1>8. Entries(ring, Inc(lo), hi) = Entries(ring, lo, hi) \ {d}
  <2>1. ASSUME NEW x \in Entries(ring, Inc(lo), hi) PROVE x \in Entries(ring, lo, hi) \ {d}
    <3>1. PICK k \in 1..n-1 : x = ring[Slot(Inc(lo), k)]
      BY <1>6, <2>1
    <3>2. x = ring[Slot(lo, k + 1)] /\ k + 1 \in 1..n /\ k + 1 # 1
      BY <1>4, <1>5, <3>1
    <3> QED
      BY <1>3, <1>4, <1>6, <1>7, <3>2
  <2>2. ASSUME NEW x \in Entries(ring, lo, hi) \ {d} PROVE x \in Entries(ring, Inc(lo), hi)
    <3>1. PICK k \in 1..n : x = ring[Slot(lo, k)]
      BY <1>6, <2>2
    <3>2. k # 1
      BY <1>7, <3>1
    <3>3. x = ring[Slot(Inc(lo), k - 1)] /\ k - 1 \in 1..n-1
      BY <1>4, <1>5, <3>1, <3>2
    <3> QED
      BY <1>6, <3>3
  <2> QED
    BY <2>1, <2>2
<1>9. Distinct(ring, Inc(lo), hi)
  BY <1>1, <1>3, <1>4, <1>5 DEF Distinct
<1> QED
  BY <1>4, <1>6, <1>7, <1>8, <1>9

LEMMA RingEmpty ==
  ASSUME NEW ring, NEW i \in Idx
  PROVE  Entries(ring, i, i) = {} /\ Distinct(ring, i, i)
<1>1. Ahead(i, i) = 0
  BY AheadInc
<1> QED
  BY <1>1 DEF Entries, Distinct

-----------------------------------------------------------------------------
(***************************************************************************)
(* The keyboard driver.  Every descriptor is in one of five places, and    *)
(* each step moves one descriptor from one place to another; fl is the free*)
(* list, first to last.                                                    *)
(***************************************************************************)

IsFreeList(fl, nx, fh, n) ==
  /\ fl \in [1..n -> Descs]
  /\ \A i, j \in 1..n : fl[i] = fl[j] => i = j
  /\ n > 0 => fl[1] = fh
  /\ \A i \in 1..n : i < n => fl[i + 1] = nx[fl[i]]

Listed(fl, n) == {fl[i] : i \in 1..n}

\* virtq_alloc_desc, and the driver's write to the descriptor it returns.
LEMMA ListPop ==
  ASSUME NEW nx \in [Descs -> Descs], NEW n \in Nat, n # 0, NEW fh, NEW fl,
         IsFreeList(fl, nx, fh, n), NEW ny, Updated(ny, nx, fh, 0)
  PROVE  /\ fh \in Listed(fl, n) /\ fh \in Descs
         /\ \E tl : /\ IsFreeList(tl, ny, nx[fh], n - 1)
                    /\ Listed(tl, n - 1) = Listed(fl, n) \ {fh}
<1> DEFINE tl == [i \in 1..n-1 |-> fl[i + 1]]
<1>0. /\ fl \in [1..n -> Descs] /\ \A i, j \in 1..n : fl[i] = fl[j] => i = j
      /\ fl[1] = fh /\ \A i \in 1..n : i < n => fl[i + 1] = nx[fl[i]]
  BY DEF IsFreeList
<1>1. /\ 1 \in 1..n /\ n - 1 \in Nat
      /\ \A i \in 1..n-1 : i + 1 \in 1..n /\ i + 1 # 1 /\ i \in 1..n
      /\ \A i \in 1..n : i # 1 => i - 1 \in 1..n-1 /\ (i - 1) + 1 = i
      /\ \A i, j \in 1..n-1 : i + 1 = j + 1 => i = j
      /\ \A i \in 1..n-1 : i < n - 1 => i + 1 \in 1..n-1 /\ i + 1 < n
  OBVIOUS
<1>2. fh \in Listed(fl, n) /\ fh \in Descs
  BY <1>0, <1>1 DEF Listed
<1>3. \A i \in 1..n-1 : tl[i] = fl[i + 1] /\ tl[i] # fh
  BY <1>0, <1>1
<1>4. tl \in [1..n-1 -> Descs] /\ \A i, j \in 1..n-1 : tl[i] = tl[j] => i = j
  BY <1>0, <1>1
<1>5. n - 1 > 0 => tl[1] = nx[fh]
  <2> SUFFICES ASSUME n - 1 > 0 PROVE tl[1] = nx[fh]
    OBVIOUS
  <2>1. 1 \in 1..n-1 /\ 1 < n
    OBVIOUS
  <2> QED
    BY <1>0, <1>1, <2>1
<1>6. \A i \in 1..n-1 : i < n - 1 => tl[i + 1] = ny[tl[i]]
  <2> SUFFICES ASSUME NEW i \in 1..n-1, i < n - 1 PROVE tl[i + 1] = ny[tl[i]]
    OBVIOUS
  <2>1. tl[i + 1] = nx[fl[i + 1]] /\ tl[i] = fl[i + 1] /\ tl[i] # fh /\ tl[i] \in Descs
    BY <1>0, <1>1, <1>3, <1>4
  <2>2. ny = [nx EXCEPT ![fh] = 0]
    BY DEF Updated
  <2> HIDE DEF tl
  <2> QED
    BY <2>1, <2>2
<1>7. Listed(tl, n - 1) = Listed(fl, n) \ {fh}
  <2>1. ASSUME NEW x \in Listed(tl, n - 1) PROVE x \in Listed(fl, n) \ {fh}
    BY <1>1, <1>3 DEF Listed
  <2>2. ASSUME NEW x \in Listed(fl, n) \ {fh} PROVE x \in Listed(tl, n - 1)
    <3>1. PICK i \in 1..n : x = fl[i] /\ i # 1
      BY <1>0 DEF Listed
    <3>2. i - 1 \in 1..n-1 /\ tl[i - 1] = x
      BY <1>1, <1>3, <3>1
    <3> QED
      BY <3>2 DEF Listed
  <2> QED
    BY <2>1, <2>2
<1> HIDE DEF tl
<1>8. IsFreeList(tl, ny, nx[fh], n - 1)
  BY <1>4, <1>5, <1>6 DEF IsFreeList
<1> QED
  BY <1>2, <1>7, <1>8

\* virtq_free_desc.
LEMMA ListPush ==
  ASSUME NEW nx \in [Descs -> Descs], NEW n \in Nat, NEW fh, NEW fl, IsFreeList(fl, nx, fh, n),
         NEW d \in Descs, d \notin Listed(fl, n), NEW ny, Updated(ny, nx, d, fh)
  PROVE  \E ls : /\ IsFreeList(ls, ny, d, n + 1)
                 /\ Listed(ls, n + 1) = Listed(fl, n) \cup {d}
<1> DEFINE ls == [i \in 1..n+1 |-> IF i = 1 THEN d ELSE fl[i - 1]]
<1>0. /\ fl \in [1..n -> Descs] /\ \A i, j \in 1..n : fl[i] = fl[j] => i = j
      /\ n > 0 => fl[1] = fh
      /\ \A i \in 1..n : i < n => fl[i + 1] = nx[fl[i]]
      /\ ny = [nx EXCEPT ![d] = fh]
  BY DEF IsFreeList, Updated
<1>1. /\ 1 \in 1..n+1
      /\ \A i \in 1..n+1 : i # 1 => i - 1 \in 1..n /\ (i - 1) + 1 = i
      /\ \A i \in 1..n : i + 1 \in 1..n+1 /\ i + 1 # 1 /\ (i + 1) - 1 = i
      /\ \A i, j \in 1..n+1 : i - 1 = j - 1 => i = j
  OBVIOUS
<1>2. \A i \in 1..n : fl[i] # d /\ fl[i] \in Descs
  BY <1>0 DEF Listed
<1>3. ls[1] = d /\ \A i \in 1..n : ls[i + 1] = fl[i]
  BY <1>1
<1>4. ls \in [1..n+1 -> Descs]
  BY <1>1, <1>2
<1>5. \A i, j \in 1..n+1 : ls[i] = ls[j] => i = j
  BY <1>0, <1>1, <1>2
<1>6. \A i \in 1..n+1 : i < n + 1 => ls[i + 1] = ny[ls[i]]
  <2> SUFFICES ASSUME NEW i \in 1..n+1, i < n + 1 PROVE ls[i + 1] = ny[ls[i]]
    OBVIOUS
  <2>1. i \in 1..n /\ ls[i + 1] = fl[i]
    BY <1>3
  <2>2. CASE i = 1
    <3>1. n > 0 /\ ls[i] = d /\ ny[d] = fh
      BY <1>0, <1>3, <2>1, <2>2
    <3> HIDE DEF ls
    <3> QED
      BY <1>0, <2>1, <2>2, <3>1
  <2>3. CASE i # 1
    <3>1. i - 1 \in 1..n /\ i - 1 < n /\ (i - 1) + 1 = i
      BY <2>1, <2>3
    <3>2. ls[i] = fl[i - 1] /\ fl[i] = nx[fl[i - 1]] /\ fl[i - 1] # d /\ fl[i - 1] \in Descs
      BY <1>0, <1>2, <1>3, <3>1
    <3>3. ny[fl[i - 1]] = nx[fl[i - 1]]
      BY <1>0, <3>2
    <3> HIDE DEF ls
    <3> QED
      BY <2>1, <3>2, <3>3
  <2> QED
    BY <2>2, <2>3
<1>7. Listed(ls, n + 1) = Listed(fl, n) \cup {d}
  <2>1. ASSUME NEW x \in Listed(ls, n + 1) PROVE x \in Listed(fl, n) \cup {d}
    BY <1>1 DEF Listed
  <2>2. ASSUME NEW x \in Listed(fl, n) \cup {d} PROVE x \in Listed(ls, n + 1)
    <3>1. CASE x = d
      BY <1>1, <1>3, <3>1 DEF Listed
    <3>2. CASE x \in Listed(fl, n)
      <4>1. PICK i \in 1..n : x = fl[i]
        BY <3>2 DEF Listed
      <4>2. i + 1 \in 1..n+1 /\ ls[i + 1] = x
        BY <1>1, <1>3, <4>1
      <4> QED
        BY <4>2 DEF Listed
    <3> QED
      BY <3>1, <3>2
  <2> QED
    BY <2>1, <2>2
<1> HIDE DEF ls
<1>8. IsFreeList(ls, ny, d, n + 1)
  BY <1>3, <1>4, <1>5, <1>6 DEF IsFreeList
<1> QED
  BY <1>7, <1>8

LEMMA ListFull ==
  \E fl : IsFreeList(fl, FullList, 0, QSize) /\ Listed(fl, QSize) = Descs
<1> DEFINE fl == [i \in 1..QSize |-> i - 1]
<1>0. QSize \in Nat /\ Descs = 0..QSize-1
  BY QueueFacts DEF Descs
<1>1. \A i \in 1..QSize : fl[i] = i - 1 /\ fl[i] \in Descs
  BY <1>0
<1>2. IsFreeList(fl, FullList, 0, QSize)
  <2>1. \A i \in 1..QSize : i < QSize => i + 1 \in 1..QSize /\ i - 1 \in Descs /\ i - 1 # QSize - 1
    BY <1>0
  <2>2. \A d \in Descs : d # QSize - 1 => FullList[d] = d + 1
    BY DEF FullList
  <2> QED
    BY <1>0, <1>1, <2>1, <2>2 DEF IsFreeList
<1>3. Listed(fl, QSize) = Descs
  <2>1. \A d \in Descs : d + 1 \in 1..QSize /\ fl[d + 1] = d
    BY <1>0
  <2> HIDE DEF fl
  <2> QED
    BY <1>1, <2>1 DEF Listed
<1> QED
  BY <1>2, <1>3

\* One descriptor changes hands.
LEMMA Moves ==
  ASSUME NEW F, NEW A, NEW D, NEW U, NEW d
  PROVE  /\ d \in F /\ Separate(F, {}, A, D, U) => Separate(F \ {d}, {d}, A, D, U)
         /\ Separate(F, {d}, A, D, U) => Separate(F, {}, A \cup {d}, D, U)
         /\ Separate(F, {d}, A, D, U) => Separate(F \cup {d}, {}, A, D, U)
         /\ d \in U /\ Separate(F, {}, A, D, U) => Separate(F, {d}, A, D, U \ {d})
  BY DEF Separate

LEMMA DeviceMoves ==
  ASSUME NEW F, NEW H, NEW A, NEW D, NEW U, NEW d
  PROVE  /\ d \in A /\ Separate(F, H, A, D, U) => Separate(F, H, A \ {d}, D \cup {d}, U)
         /\ d \in D /\ Separate(F, H, A, D, U) => Separate(F, H, A, D \ {d}, U \cup {d})
  BY DEF Separate

InHand == IF pc \in {"ring", "idx", "event"} THEN {head} ELSE {}

InAvail == Entries(avail_ring, dev_avail, avail_idx)
InUsed == Entries(used_ring, last_used_idx, used_idx)

InputTypeOK ==
  /\ dev = "input"
  /\ pc \in {"off", "refill", "ring", "idx", "notify", "idle", "pop", "event"}
  /\ avail_idx \in Idx /\ dev_avail \in Idx /\ used_idx \in Idx /\ last_used_idx \in Idx
  /\ avail_ring \in [Descs -> Descs] /\ used_ring \in [Descs -> Descs]
  /\ next \in [Descs -> Descs] /\ free_head \in Descs /\ num_free \in Nat
  /\ chained = {} /\ inits \in Nat

\* Before the first init there is no queue, and the device has nothing.
InputOff == inits = 0 => pc = "off" /\ ~live /\ dev_has = {}

Owned ==
  \E fl : /\ IsFreeList(fl, next, free_head, num_free)
          /\ Separate(Listed(fl, num_free), InHand, InAvail, dev_has, InUsed)

RingsDistinct ==
  Distinct(avail_ring, dev_avail, avail_idx) /\ Distinct(used_ring, last_used_idx, used_idx)

EntryWritten == pc = "idx" => avail_ring[avail_idx % QSize] = head

InputInv ==
  /\ InputTypeOK /\ InputOff
  /\ inits > 0 => pc # "off" /\ Owned /\ RingsDistinct /\ EntryWritten

LEMMA InputInit == ASSUME VirtioInit, dev = "input" PROVE InputInv
  BY QueueFacts DEF VirtioInit, VirtqInit, InputInv, InputTypeOK, InputOff

LEMMA InputSetup == ASSUME InputInv, Setup PROVE InputInv'
<1> USE DEF InputInv
<1>1. pc' = "refill" /\ inits' = inits + 1 /\ inits' > 0 /\ dev' = dev
  BY DEF InputTypeOK, Setup
<1>2. /\ dev_avail' = 0 /\ avail_idx' = 0 /\ dev_has' = {} /\ used_idx' = 0 /\ last_used_idx' = 0
      /\ next' = FullList /\ free_head' = 0 /\ num_free' = QSize /\ chained' = {}
      /\ UNCHANGED <<avail_ring, used_ring>>
  BY DEF Setup, QueueSetup, DeviceReset, FreeInit, FullList
<1>3. InputTypeOK'
  BY <1>1, <1>2, FirstOfList, QueueFacts DEF InputTypeOK
<1>4. RingsDistinct' /\ InAvail' = {} /\ InUsed' = {}
  BY <1>2, RingEmpty, QueueFacts DEF RingsDistinct, InAvail, InUsed
<1>5. Owned'
  <2>1. PICK fl : IsFreeList(fl, FullList, 0, QSize) /\ Listed(fl, QSize) = Descs
    BY ListFull
  <2>2. InHand' = {}
    BY <1>1 DEF InHand
  <2>3. Separate(Descs, {}, {}, {}, {})
    BY DEF Separate
  <2> QED
    BY <1>2, <1>4, <2>1, <2>2, <2>3 DEF Owned
<1> QED
  BY <1>1, <1>3, <1>4, <1>5 DEF InputOff, EntryWritten

\* What is in the driver's hand is a descriptor, and in no ring.
LEMMA HandAndRings ==
  ASSUME InputTypeOK, Owned, RingsDistinct
  PROVE  /\ \A d \in InHand : /\ d \in Descs /\ d \notin InAvail
                              /\ Ahead(avail_idx, dev_avail) < QSize
         /\ \A d \in dev_has : /\ d \in Descs /\ d \notin InUsed
                               /\ Ahead(used_idx, last_used_idx) < QSize
<1> USE DEF InputTypeOK, RingsDistinct
<1>1. PICK fl : Separate(Listed(fl, num_free), InHand, InAvail, dev_has, InUsed)
  BY DEF Owned
<1>2. \A d \in InHand : d \in Descs /\ d \notin InAvail
  BY <1>1 DEF Separate
<1>3. \A d \in dev_has : d \in Descs /\ d \notin InUsed
  BY <1>1 DEF Separate
<1>4. ASSUME NEW d \in InHand PROVE Ahead(avail_idx, dev_avail) < QSize
  BY <1>2, <1>4, RingRoom DEF InAvail
<1>5. ASSUME NEW d \in dev_has PROVE Ahead(used_idx, last_used_idx) < QSize
  BY <1>3, <1>5, RingRoom DEF InUsed
<1> QED
  BY <1>2, <1>3, <1>4, <1>5

LEMMA InputPushEntry == ASSUME InputInv, PushEntry PROVE InputInv'
<1> USE DEF InputInv
<1>1. /\ pc = "ring" /\ pc' = "idx" /\ inits > 0 /\ avail_ring' = [avail_ring EXCEPT ![avail_idx % QSize] = head]
      /\ UNCHANGED <<next, chained, free_head, num_free, avail_idx, used_ring, used_idx, last_used_idx,
                     dev_avail, dev_has, live, dev, inits, head>>
  BY DEF PushEntry, AvailEntry, freeList, device, InputTypeOK, InputOff
<1>2. InHand = {head} /\ InHand' = {head}
  BY <1>1 DEF InHand
<1>3. head \in Descs /\ Ahead(avail_idx, dev_avail) < QSize
  BY <1>1, <1>2, HandAndRings
<1>4. /\ avail_ring' \in [Descs -> Descs] /\ avail_ring'[avail_idx % QSize] = head
      /\ \A k \in 1..Ahead(avail_idx, dev_avail) :
           avail_ring'[Slot(dev_avail, k)] = avail_ring[Slot(dev_avail, k)]
  <2>1. avail_ring \in [Descs -> Descs] /\ dev_avail \in Idx /\ avail_idx \in Idx
    BY DEF InputTypeOK
  <2>2. Updated(avail_ring', avail_ring, avail_idx % QSize, head)
    BY <1>1 DEF Updated
  <2> QED
    BY <1>3, <2>1, <2>2, RingWrite
<1>5. /\ Entries(avail_ring', dev_avail, avail_idx) = Entries(avail_ring, dev_avail, avail_idx)
      /\ Distinct(avail_ring, dev_avail, avail_idx) => Distinct(avail_ring', dev_avail, avail_idx)
  BY <1>4, RingSame
<1>6. RingsDistinct' /\ InAvail' = InAvail /\ InUsed' = InUsed
  BY <1>1, <1>5 DEF RingsDistinct, InAvail, InUsed
<1>7. Owned'
  BY <1>1, <1>2, <1>6 DEF Owned
<1>8. InputTypeOK'
  BY <1>1, <1>4 DEF InputTypeOK
<1> QED
  BY <1>1, <1>4, <1>6, <1>7, <1>8 DEF InputOff, EntryWritten

LEMMA InputPushIndex == ASSUME InputInv, PushIndex PROVE InputInv'
<1> USE DEF InputInv
<1>1. /\ pc = "idx" /\ pc' = "refill" /\ inits > 0 /\ avail_idx' = Inc(avail_idx)
      /\ UNCHANGED <<next, chained, free_head, num_free, avail_ring, used_ring, used_idx, last_used_idx,
                     dev_avail, dev_has, live, dev, inits, head>>
  BY DEF PushIndex, AvailIndex, freeList, device, InputTypeOK, InputOff
<1>2. InHand = {head} /\ InHand' = {}
  BY <1>1 DEF InHand
<1>3. head \in Descs /\ head \notin InAvail /\ Ahead(avail_idx, dev_avail) < QSize
  BY <1>1, <1>2, HandAndRings
<1>4. /\ Entries(avail_ring, dev_avail, Inc(avail_idx)) = InAvail \cup {head}
      /\ Distinct(avail_ring, dev_avail, Inc(avail_idx))
  <2>1. avail_ring[avail_idx % QSize] = head
    BY <1>1 DEF EntryWritten
  <2> QED
    BY <1>1, <1>3, <2>1, RingGrow DEF InputTypeOK, InAvail, RingsDistinct
<1>5. RingsDistinct' /\ InAvail' = InAvail \cup {head} /\ InUsed' = InUsed
  BY <1>1, <1>4 DEF RingsDistinct, InAvail, InUsed
<1>6. Owned'
  <2>1. PICK fl : /\ IsFreeList(fl, next, free_head, num_free)
                  /\ Separate(Listed(fl, num_free), {head}, InAvail, dev_has, InUsed)
    BY <1>1, <1>2 DEF Owned
  <2>2. Separate(Listed(fl, num_free), {}, InAvail \cup {head}, dev_has, InUsed)
    BY <2>1, Moves
  <2> QED
    BY <1>1, <1>2, <1>5, <2>1, <2>2 DEF Owned
<1>7. InputTypeOK'
  BY <1>1, IncValue DEF InputTypeOK
<1> QED
  BY <1>1, <1>5, <1>6, <1>7 DEF InputOff, EntryWritten

LEMMA InputRefill == ASSUME InputInv, RefillDesc PROVE InputInv'
<1> USE DEF InputInv
<1>1. /\ pc = "refill" /\ pc' = "ring" /\ inits > 0 /\ num_free # 0
      /\ head' = free_head /\ free_head' = Nth[1] /\ num_free' = num_free - 1
      /\ next' = [next EXCEPT ![free_head] = 0] /\ chained' = {}
      /\ UNCHANGED <<avail_ring, avail_idx, used_ring, used_idx, last_used_idx, dev_avail, dev_has,
                     live, dev, inits>>
  BY DEF RefillDesc, At, AllocDesc, rings, device, InputTypeOK, InputOff
<1>2. free_head' = next[free_head]
  <2>1. Nth[0] = free_head /\ Nth[0 + 1] = next[Nth[0]]
    BY NthValue
  <2> QED
    BY <1>1, <2>1
<1>3. InHand = {} /\ InHand' = {free_head}
  BY <1>1 DEF InHand
<1>4. RingsDistinct' /\ InAvail' = InAvail /\ InUsed' = InUsed
  BY <1>1 DEF RingsDistinct, InAvail, InUsed
<1>5. PICK fl : /\ IsFreeList(fl, next, free_head, num_free)
                /\ Separate(Listed(fl, num_free), {}, InAvail, dev_has, InUsed)
  BY <1>1, <1>3 DEF Owned
<1>6. /\ free_head \in Listed(fl, num_free) /\ free_head \in Descs
      /\ \E tl : /\ IsFreeList(tl, next', next[free_head], num_free - 1)
                 /\ Listed(tl, num_free - 1) = Listed(fl, num_free) \ {free_head}
  <2>1. next \in [Descs -> Descs] /\ num_free \in Nat /\ num_free # 0
    BY <1>1 DEF InputTypeOK
  <2>2. Updated(next', next, free_head, 0)
    BY <1>1 DEF Updated
  <2> QED
    BY <1>5, <2>1, <2>2, ListPop
<1>7. PICK tl : /\ IsFreeList(tl, next', free_head', num_free')
                /\ Listed(tl, num_free') = Listed(fl, num_free) \ {free_head}
  BY <1>1, <1>2, <1>6
<1>8. Separate(Listed(tl, num_free'), {free_head}, InAvail, dev_has, InUsed)
  <2>1. Separate(Listed(fl, num_free) \ {free_head}, {free_head}, InAvail, dev_has, InUsed)
    BY <1>5, <1>6, Moves
  <2> QED
    BY <1>7, <2>1
<1>9. Owned'
  BY <1>1, <1>3, <1>4, <1>7, <1>8 DEF Owned
<1>10. InputTypeOK'
  <2>1. next' \in [Descs -> Descs] /\ free_head' \in Descs /\ num_free' \in Nat
    BY <1>1, <1>2, <1>6, QueueFacts DEF InputTypeOK
  <2> QED
    BY <1>1, <2>1 DEF InputTypeOK
<1> QED
  BY <1>1, <1>4, <1>9, <1>10 DEF InputOff, EntryWritten

LEMMA InputTakes == ASSUME InputInv, InputPop PROVE InputInv'
<1> USE DEF InputInv
<1>1. /\ pc = "pop" /\ pc' = "event" /\ inits > 0 /\ used_idx # last_used_idx
      /\ head' = used_ring[last_used_idx % QSize] /\ last_used_idx' = Inc(last_used_idx)
      /\ UNCHANGED <<next, chained, free_head, num_free, avail_ring, avail_idx, used_ring, used_idx,
                     dev_avail, dev_has, live, dev, inits>>
  BY DEF InputPop, At, UsedPending, UsedId, UsedTake, freeList, device, InputTypeOK, InputOff
<1>2. InHand = {} /\ InHand' = {head'}
  BY <1>1 DEF InHand
<1>3. /\ head' \in InUsed
      /\ Entries(used_ring, Inc(last_used_idx), used_idx) = InUsed \ {head'}
      /\ Distinct(used_ring, Inc(last_used_idx), used_idx)
  BY <1>1, RingTake DEF InputTypeOK, InUsed, RingsDistinct
<1>4. RingsDistinct' /\ InAvail' = InAvail /\ InUsed' = InUsed \ {head'}
  BY <1>1, <1>3 DEF RingsDistinct, InAvail, InUsed
<1>5. Owned'
  <2>1. PICK fl : /\ IsFreeList(fl, next, free_head, num_free)
                  /\ Separate(Listed(fl, num_free), {}, InAvail, dev_has, InUsed)
    BY <1>1, <1>2 DEF Owned
  <2>2. Separate(Listed(fl, num_free), {head'}, InAvail, dev_has, InUsed \ {head'})
    BY <1>3, <2>1, Moves
  <2> QED
    BY <1>1, <1>2, <1>4, <2>1, <2>2 DEF Owned
<1>6. InputTypeOK'
  BY <1>1, IncValue DEF InputTypeOK
<1> QED
  BY <1>1, <1>4, <1>5, <1>6 DEF InputOff, EntryWritten

LEMMA InputFrees == ASSUME InputInv, InputEvent PROVE InputInv'
<1> USE DEF InputInv
<1>1. /\ pc = "event" /\ pc' = "pop" /\ inits > 0
      /\ next' = [next EXCEPT ![head] = free_head] /\ free_head' = head /\ num_free' = num_free + 1
      /\ UNCHANGED <<chained, avail_ring, avail_idx, used_ring, used_idx, last_used_idx, dev_avail,
                     dev_has, live, dev, inits>>
  BY DEF InputEvent, At, FreeDesc, rings, device, InputTypeOK, InputOff
<1>2. InHand = {head} /\ InHand' = {}
  BY <1>1 DEF InHand
<1>3. RingsDistinct' /\ InAvail' = InAvail /\ InUsed' = InUsed
  BY <1>1 DEF RingsDistinct, InAvail, InUsed
<1>4. PICK fl : /\ IsFreeList(fl, next, free_head, num_free)
                /\ Separate(Listed(fl, num_free), {head}, InAvail, dev_has, InUsed)
  BY <1>1, <1>2 DEF Owned
<1>5. head \in Descs /\ head \notin Listed(fl, num_free)
  BY <1>4 DEF Separate
<1>6. PICK ls : /\ IsFreeList(ls, next', head, num_free + 1)
                /\ Listed(ls, num_free + 1) = Listed(fl, num_free) \cup {head}
  <2>1. next \in [Descs -> Descs] /\ num_free \in Nat
    BY DEF InputTypeOK
  <2>2. Updated(next', next, head, free_head)
    BY <1>1 DEF Updated
  <2> QED
    BY <1>4, <1>5, <2>1, <2>2, ListPush
<1>7. Separate(Listed(ls, num_free + 1), {}, InAvail, dev_has, InUsed)
  <2>1. Separate(Listed(fl, num_free) \cup {head}, {}, InAvail, dev_has, InUsed)
    BY <1>4, Moves
  <2> QED
    BY <1>6, <2>1
<1>8. Owned'
  BY <1>1, <1>2, <1>3, <1>6, <1>7 DEF Owned
<1>9. InputTypeOK'
  BY <1>1, <1>5 DEF InputTypeOK
<1> QED
  BY <1>1, <1>3, <1>8, <1>9 DEF InputOff, EntryWritten

\* The device takes the oldest entry; before the first init it is not live.
LEMMA InputDevTake == ASSUME InputInv, Take PROVE InputInv'
<1> USE DEF InputInv
<1>1. /\ inits > 0 /\ pc # "off"
      /\ UNCHANGED <<next, chained, free_head, num_free, avail_ring, avail_idx, used_ring, used_idx,
                     last_used_idx, live, dev, pc, inits, head>>
  BY DEF Take, DevTake, freeList, InputTypeOK, InputOff
<1>2. InHand' = InHand /\ EntryWritten' /\ InUsed' = InUsed
  BY <1>1 DEF InHand, EntryWritten, InUsed
<1>3. CASE dev_avail = avail_idx
  <2>1. UNCHANGED <<dev_avail, dev_has>>
    BY <1>3 DEF Take, DevTake
  <2>2. InAvail' = InAvail /\ RingsDistinct'
    BY <1>1, <2>1 DEF InAvail, RingsDistinct
  <2>3. Owned'
    BY <1>1, <1>2, <2>1, <2>2 DEF Owned
  <2>4. InputTypeOK'
    BY <1>1, <2>1 DEF InputTypeOK
  <2> QED
    BY <1>1, <1>2, <2>2, <2>3, <2>4 DEF InputOff
<1>4. CASE dev_avail # avail_idx
  <2> DEFINE d == avail_ring[dev_avail % QSize]
  <2>1. dev_has' = dev_has \cup {d} /\ dev_avail' = Inc(dev_avail)
    BY <1>4 DEF Take, DevTake
  <2>2. /\ d \in InAvail
        /\ Entries(avail_ring, Inc(dev_avail), avail_idx) = InAvail \ {d}
        /\ Distinct(avail_ring, Inc(dev_avail), avail_idx)
    BY <1>1, <1>4, RingTake DEF InputTypeOK, InAvail, RingsDistinct
  <2> HIDE DEF d
  <2>3. InAvail' = InAvail \ {d} /\ RingsDistinct'
    BY <1>1, <2>1, <2>2 DEF InAvail, RingsDistinct
  <2>4. Owned'
    <3>1. PICK fl : /\ IsFreeList(fl, next, free_head, num_free)
                    /\ Separate(Listed(fl, num_free), InHand, InAvail, dev_has, InUsed)
      BY <1>1 DEF Owned
    <3>2. Separate(Listed(fl, num_free), InHand, InAvail \ {d}, dev_has \cup {d}, InUsed)
      BY <2>2, <3>1, DeviceMoves
    <3> QED
      BY <1>1, <1>2, <2>1, <2>3, <3>1, <3>2 DEF Owned
  <2>5. InputTypeOK'
    BY <1>1, <2>1, IncValue DEF InputTypeOK
  <2> QED
    BY <1>1, <1>2, <2>3, <2>4, <2>5 DEF InputOff
<1> QED
  BY <1>3, <1>4

\* The device returns any of the buffers it has.
LEMMA InputDevReturn == ASSUME InputInv, KeyEvent PROVE InputInv'
<1> USE DEF InputInv
<1>1. PICK h \in dev_has : DevReturn(h)
  BY DEF KeyEvent
<1>2. /\ inits > 0 /\ pc # "off"
      /\ dev_has' = dev_has \ {h} /\ used_idx' = Inc(used_idx)
      /\ Updated(used_ring', used_ring, used_idx % QSize, h)
      /\ UNCHANGED <<next, chained, free_head, num_free, avail_ring, avail_idx, last_used_idx,
                     dev_avail, live, dev, pc, inits, head>>
  <2>1. inits # 0 /\ inits \in Nat
    BY <1>1 DEF InputTypeOK, InputOff
  <2>2. inits > 0 /\ pc # "off"
    BY <2>1
  <2>3. /\ dev_has' = dev_has \ {h} /\ used_idx' = Inc(used_idx)
        /\ used_ring' = [used_ring EXCEPT ![used_idx % QSize] = h]
        /\ UNCHANGED <<freeList, avail_ring, avail_idx, last_used_idx, dev_avail, live>>
    BY <1>1 DEF DevReturn
  <2>4. UNCHANGED <<dev, pc, inits, head>>
    BY DEF KeyEvent
  <2> QED
    BY <2>2, <2>3, <2>4 DEF Updated, freeList
<1>3. h \in Descs /\ h \notin InUsed /\ Ahead(used_idx, last_used_idx) < QSize
  BY <1>2, HandAndRings
<1>4. /\ used_ring' \in [Descs -> Descs] /\ used_ring'[used_idx % QSize] = h
      /\ \A k \in 1..Ahead(used_idx, last_used_idx) :
           used_ring'[Slot(last_used_idx, k)] = used_ring[Slot(last_used_idx, k)]
  BY <1>2, <1>3, RingWrite DEF InputTypeOK
<1>5. /\ Entries(used_ring', last_used_idx, used_idx) = InUsed
      /\ Distinct(used_ring', last_used_idx, used_idx)
  BY <1>2, <1>4, RingSame DEF InUsed, RingsDistinct
<1>6. /\ Entries(used_ring', last_used_idx, Inc(used_idx)) = InUsed \cup {h}
      /\ Distinct(used_ring', last_used_idx, Inc(used_idx))
  <2>1. h \notin Entries(used_ring', last_used_idx, used_idx)
    BY <1>3, <1>5
  <2> QED
    BY <1>3, <1>4, <1>5, <2>1, RingGrow DEF InputTypeOK
<1>7. InUsed' = InUsed \cup {h} /\ InAvail' = InAvail /\ RingsDistinct' /\ EntryWritten'
      /\ InHand' = InHand
  BY <1>2, <1>6 DEF InUsed, InAvail, RingsDistinct, EntryWritten, InHand
<1>8. Owned'
  <2>1. PICK fl : /\ IsFreeList(fl, next, free_head, num_free)
                  /\ Separate(Listed(fl, num_free), InHand, InAvail, dev_has, InUsed)
    BY <1>2 DEF Owned
  <2>2. Separate(Listed(fl, num_free), InHand, InAvail, dev_has \ {h}, InUsed \cup {h})
    BY <2>1, DeviceMoves
  <2> QED
    BY <1>2, <1>7, <2>1, <2>2 DEF Owned
<1>9. InputTypeOK'
  BY <1>2, <1>4, IncValue DEF InputTypeOK
<1> QED
  BY <1>2, <1>7, <1>8, <1>9 DEF InputOff

\* Steps that move no descriptor.
LEMMA InputStays ==
  ASSUME InputInv, InHand' = InHand, pc' # "idx" \/ pc' = pc, inits' = inits,
         pc' \in {"off", "refill", "ring", "idx", "notify", "idle", "pop", "event"},
         inits > 0 => pc' # "off", inits = 0 => pc' = pc /\ ~live',
         UNCHANGED <<freeList, rings, dev_avail, dev_has, dev, head>>
  PROVE  InputInv'
<1> USE DEF InputInv
<1>1. UNCHANGED <<next, chained, free_head, num_free, avail_ring, avail_idx, used_ring, used_idx,
                  last_used_idx, dev_avail, dev_has, dev, head>>
  BY DEF freeList, rings
<1>2. InputTypeOK' /\ InputOff'
  BY <1>1 DEF InputTypeOK, InputOff
<1>3. InAvail' = InAvail /\ InUsed' = InUsed
  BY <1>1 DEF InAvail, InUsed
<1>4. inits > 0 => Owned' /\ RingsDistinct' /\ EntryWritten'
  BY <1>1, <1>3 DEF Owned, RingsDistinct, EntryWritten
<1> QED
  BY <1>2, <1>4

LEMMA InputStep == ASSUME InputInv, [VirtioNext]_virtioVars PROVE InputInv'
<1>0. dev = "input" /\ (inits = 0 => pc = "off" /\ ~live)
  BY DEF InputInv, InputTypeOK, InputOff
<1>1. ~GpuCmd /\ ~GpuPop /\ ~Present /\ ~GpuAnswer
  BY <1>0 DEF GpuCmd, GpuPop, Present, GpuAnswer, At
<1>2. ASSUME Notify \/ RefillDone \/ InputPoll \/ InputDrained \/ UNCHANGED virtioVars PROVE InputInv'
  <2>1. InHand' = InHand
    BY <1>0, <1>2 DEF InHand, Notify, RefillDone, InputPoll, InputDrained, At, virtioVars
  <2>2. /\ pc' # "idx" \/ pc' = pc
        /\ inits' = inits
        /\ pc' \in {"off", "refill", "ring", "idx", "notify", "idle", "pop", "event"}
        /\ inits > 0 => pc' # "off"
        /\ inits = 0 => pc' = pc /\ ~live'
    BY <1>0, <1>2 DEF InputInv, InputTypeOK, Notify, RefillDone, InputPoll, InputDrained, At, queueVars, virtioVars
  <2>3. UNCHANGED <<freeList, rings, dev_avail, dev_has, dev, head>>
    BY <1>2 DEF Notify, RefillDone, InputPoll, InputDrained, device, rings, queueVars, virtioVars
  <2> QED
    BY <2>1, <2>2, <2>3, InputStays
<1> QED
  BY <1>1, <1>2, InputSetup, InputPushEntry, InputPushIndex, InputRefill, InputTakes, InputFrees,
     InputDevTake, InputDevReturn DEF VirtioNext, Driver

LEMMA InputOwners == InputInv => OneOwner
<1> SUFFICES ASSUME InputInv, inits > 0 PROVE Partitioned(Held)
  BY DEF OneOwner
<1> USE DEF InputInv
<1>1. \A h : Chain(h) = {h}
  BY DEF Chain, InputTypeOK
<1>2. \A S : Chains(S) = S
  BY <1>1 DEF Chains
<1>3. Held = InHand
  BY <1>1 DEF Held, InHand
<1>4. PICK fl : /\ IsFreeList(fl, next, free_head, num_free)
                /\ Separate(Listed(fl, num_free), InHand, InAvail, dev_has, InUsed)
  BY DEF Owned
<1>5. num_free \in Nat
  BY DEF InputTypeOK
<1>6. \A n \in 0..num_free-1 : Nth[n] = fl[n + 1]
  <2> DEFINE bad == {n \in 0..num_free-1 : Nth[n] # fl[n + 1]}
  <2> SUFFICES ASSUME bad # {} PROVE FALSE
    OBVIOUS
  <2>0. bad \subseteq Nat
    OBVIOUS
  <2>1. PICK n \in bad : \A k \in bad : n <= k
    BY <2>0, SmallestOf
  <2>2. n # 0
    <3>0. num_free > 0
      BY <1>5, <2>1
    <3>1. fl[1] = free_head /\ Nth[0] = free_head
      <4>1. fl[1] = free_head
        BY <1>4, <3>0 DEF IsFreeList
      <4> QED
        BY <4>1, NthValue
    <3>2. Nth[0] = fl[0 + 1]
      BY <3>1
    <3> QED
      BY <2>1, <3>2
  <2>3. n - 1 \in 0..num_free-1 /\ n - 1 \notin bad /\ (n - 1) + 1 = n /\ n \in 1..num_free /\ n < num_free
    BY <1>5, <2>1, <2>2
  <2>4. Nth[n - 1] = fl[n] /\ Nth[(n - 1) + 1] = next[Nth[n - 1]]
    BY <2>3, NthValue
  <2>5. fl[n + 1] = next[fl[n]]
    BY <1>4, <2>3 DEF IsFreeList
  <2>6. Nth[n] = fl[n + 1]
    BY <2>3, <2>4, <2>5
  <2> QED
    BY <2>1, <2>6
<1>7. FreeSet = Listed(fl, num_free)
  <2>1. \A n \in 0..num_free-1 : n + 1 \in 1..num_free
    BY <1>5
  <2>2. \A i \in 1..num_free : i - 1 \in 0..num_free-1 /\ (i - 1) + 1 = i
    BY <1>5
  <2>3. \A i \in 1..num_free : fl[i] = Nth[i - 1]
    BY <1>6, <2>2
  <2> QED
    BY <1>6, <2>1, <2>2, <2>3 DEF FreeSet, Listed
<1>8. \A i, j \in 0..num_free-1 : Nth[i] = Nth[j] => i = j
  <2>1. \A i, j \in 0..num_free-1 : i + 1 \in 1..num_free /\ j + 1 \in 1..num_free /\ (i + 1 = j + 1 => i = j)
    BY <1>5
  <2> QED
    BY <1>4, <1>6, <2>1 DEF IsFreeList
<1>9. ASSUME NEW ring \in [Descs -> Descs], NEW lo \in Idx, NEW hi \in Idx, NEW q, Distinct(ring, lo, hi),
             IsWindow(q, ring, lo, hi)
      PROVE  Elements(q) = Entries(ring, lo, hi) /\ Cardinality(Elements(q)) = Len(q)
  <2>1. Ahead(hi, lo) \in Nat
    BY AheadValue DEF Idx
  <2> DEFINE n == Ahead(hi, lo)
  <2>2. /\ Len(q) = n /\ q \in [1..n -> Descs]
        /\ \A k \in 1..n : q[k] = ring[Slot(lo, k)]
    BY <1>9, WindowSeq
  <2>3. Elements(q) = Entries(ring, lo, hi)
    BY <2>2 DEF Elements, Entries
  <2>4. \A i, j \in 1..n : q[i] = q[j] => i = j
    BY <1>9, <2>2 DEF Distinct
  <2>5. q \in [1..n -> Elements(q)] /\ \A t \in Elements(q) : \E i \in 1..n : q[i] = t
    BY <2>2 DEF Elements
  <2>6. Cardinality(Elements(q)) = n
    BY <2>1, <2>4, <2>5, DistinctCount
  <2> QED
    BY <2>2, <2>3, <2>6
<1>10. Elements(AvailSeq) = InAvail /\ Cardinality(Elements(AvailSeq)) = Len(AvailSeq)
  <2>1. avail_ring \in [Descs -> Descs] /\ dev_avail \in Idx /\ avail_idx \in Idx
    BY DEF InputTypeOK
  <2>2. Distinct(avail_ring, dev_avail, avail_idx)
    BY DEF RingsDistinct
  <2>3. IsWindow(AvailSeq, avail_ring, dev_avail, avail_idx)
    BY DEF AvailSeq, IsWindow
  <2> QED
    BY <1>9, <2>1, <2>2, <2>3 DEF InAvail
<1>11. Elements(UsedSeq) = InUsed /\ Cardinality(Elements(UsedSeq)) = Len(UsedSeq)
  <2>1. used_ring \in [Descs -> Descs] /\ last_used_idx \in Idx /\ used_idx \in Idx
    BY DEF InputTypeOK
  <2>2. Distinct(used_ring, last_used_idx, used_idx)
    BY DEF RingsDistinct
  <2>3. IsWindow(UsedSeq, used_ring, last_used_idx, used_idx)
    BY DEF UsedSeq, IsWindow
  <2> QED
    BY <1>9, <2>1, <2>2, <2>3 DEF InUsed
<1>12. NoneTwice
  BY <1>5, <1>8, <1>10, <1>11 DEF NoneTwice
<1>13. Separate(FreeSet, Held, Chains(Elements(AvailSeq)), Chains(dev_has), Chains(Elements(UsedSeq)))
  BY <1>2, <1>3, <1>4, <1>7, <1>10, <1>11
<1> QED
  BY <1>12, <1>13, PartitionedIf

\* Every descriptor has exactly one owner at every step of both drivers, for
\* queues of any size, whatever the order in which the device returns buffers and
\* however often the drivers are initialised again.
THEOREM OneOwnerHolds == VirtioSpec => []OneOwner
<1>1. VirtioInit => GpuInv \/ InputInv
  BY GpuInit, InputInit DEF VirtioInit
<1>2. (GpuInv \/ InputInv) /\ [VirtioNext]_virtioVars => (GpuInv \/ InputInv)'
  BY GpuStep, InputStep
<1>3. GpuInv \/ InputInv => OneOwner
  BY GpuOwners, InputOwners
<1> QED
  BY <1>1, <1>2, <1>3, PTL DEF VirtioSpec

-----------------------------------------------------------------------------
(***************************************************************************)
(* Key transitions arrive in order.  cut[i] is how many of the accepted    *)
(* events have reached the callback once the first i buffers have: it turns*)
(* the recursion of KeysOf into something a step can move along.           *)
(***************************************************************************)

LEMMA EqualEverywhere ==
  ASSUME NEW T, NEW n \in Nat, NEW p \in Seq(T), NEW q \in Seq(T), Len(p) = n, Len(q) = n,
         \A k \in 1..n : p[k] = q[k]
  PROVE  p = q
  OBVIOUS

LEMMA SeqAppend ==
  ASSUME NEW T, NEW n \in Nat, NEW q \in Seq(T), Len(q) = n, NEW e \in T
  PROVE  /\ Append(q, e) \in Seq(T) /\ Len(Append(q, e)) = n + 1 /\ Append(q, e)[n + 1] = e
         /\ \A k \in 1..n : Append(q, e)[k] = q[k]
  OBVIOUS

LEMMA WindowGrows ==
  ASSUME NEW ring \in [Descs -> Descs], NEW new \in [Descs -> Descs], NEW lo \in Idx, NEW hi \in Idx,
         NEW d, Ahead(hi, lo) < QSize, new[hi % QSize] = d,
         \A k \in 1..Ahead(hi, lo) : new[Slot(lo, k)] = ring[Slot(lo, k)],
         NEW q, NEW p, IsWindow(q, ring, lo, hi), IsWindow(p, new, lo, Inc(hi))
  PROVE  p = Append(q, d)
<1> DEFINE n == Ahead(hi, lo)
<1>0. /\ n \in Nat /\ q \in Seq(Descs) /\ Len(q) = n /\ \A k \in 1..n : q[k] = ring[Slot(lo, k)]
  BY WindowSeq
<1>1. Ahead(Inc(hi), lo) = n + 1
  <2>1. n + 1 < IdxMod
    BY <1>0, QueueFacts
  <2> QED
    BY <2>1, AheadInc
<1>2. /\ p \in Seq(Descs) /\ Len(p) = n + 1 /\ \A k \in 1..n+1 : p[k] = new[Slot(lo, k)]
  <2>1. Inc(hi) \in Idx
    BY IncValue
  <2> QED
    BY <1>1, <2>1, WindowSeq
<1>3. new[Slot(lo, n + 1)] = d
  BY SlotMoves
<1> HIDE DEF n
<1>4. \A k \in 1..n : new[Slot(lo, k)] = ring[Slot(lo, k)]
  BY DEF n
<1>5. \A k \in 1..n : p[k] = q[k]
  BY <1>0, <1>2, <1>4
<1>6. p[n + 1] = d
  BY <1>0, <1>2, <1>3
<1>7. d \in Descs
  BY <1>0, <1>2, <1>6
<1>8. /\ Append(q, d) \in Seq(Descs) /\ Len(Append(q, d)) = n + 1 /\ Append(q, d)[n + 1] = d
      /\ \A k \in 1..n : Append(q, d)[k] = q[k]
  BY <1>0, <1>7
<1>9. \A k \in 1..n+1 : p[k] = Append(q, d)[k]
  BY <1>0, <1>5, <1>6, <1>8
<1> QED
  BY <1>2, <1>8, <1>9, EqualEverywhere

LEMMA WindowShrinks ==
  ASSUME NEW ring \in [Descs -> Descs], NEW lo \in Idx, NEW hi \in Idx, lo # hi,
         NEW q, NEW p, IsWindow(q, ring, lo, hi), IsWindow(p, ring, Inc(lo), hi)
  PROVE  q = <<ring[lo % QSize]>> \o p
<1> DEFINE n == Ahead(hi, lo)
           r == <<ring[lo % QSize]>> \o p
<1>0. /\ n \in Nat /\ n # 0 /\ q \in Seq(Descs) /\ Len(q) = n /\ \A k \in 1..n : q[k] = ring[Slot(lo, k)]
  BY WindowSeq, AheadInc
<1>1. Inc(lo) \in Idx /\ Ahead(hi, Inc(lo)) = n - 1
  BY AheadInc, IncValue
<1>2. p \in Seq(Descs) /\ Len(p) = n - 1 /\ \A k \in 1..n-1 : p[k] = ring[Slot(Inc(lo), k)]
  BY <1>1, WindowSeq
<1>3. Slot(lo, 1) = lo % QSize /\ \A k \in Nat \ {0} : Slot(Inc(lo), k) = Slot(lo, k + 1)
  BY SlotMoves
<1> HIDE DEF n
<1>4. ring[lo % QSize] \in Descs
  <2>1. 1 \in 1..n
    BY <1>0
  <2> QED
    BY <1>0, <1>3, <2>1
<1>5. /\ r \in Seq(Descs) /\ Len(r) = n /\ r[1] = ring[lo % QSize]
      /\ \A k \in 2..n : r[k] = p[k - 1]
  BY <1>0, <1>2, <1>4
<1> HIDE DEF r
<1>6. \A k \in 2..n : k - 1 \in 1..n-1 /\ k - 1 \in Nat \ {0} /\ (k - 1) + 1 = k
  BY <1>0
<1>7. ASSUME NEW k \in 2..n PROVE r[k] = ring[Slot(lo, k)]
  <2>1. r[k] = p[k - 1] /\ p[k - 1] = ring[Slot(Inc(lo), k - 1)]
    BY <1>2, <1>5, <1>6
  <2>2. Slot(Inc(lo), k - 1) = Slot(lo, k)
    <3>1. Slot(Inc(lo), k - 1) = Slot(lo, (k - 1) + 1)
      BY <1>3, <1>6
    <3> QED
      BY <1>6, <3>1
  <2> QED
    BY <2>1, <2>2
<1>8. \A k \in 1..n : k = 1 \/ k \in 2..n
  BY <1>0
<1>9. \A k \in 1..n : q[k] = r[k]
  BY <1>0, <1>3, <1>5, <1>7, <1>8
<1>10. q = r
  BY <1>0, <1>5, <1>9, EqualEverywhere
<1> QED
  BY <1>10 DEF r

IsKeyCut(cut, c, buf, del, acc) ==
  /\ cut \in [0..Len(c) -> Nat]
  /\ cut[0] = Len(del) /\ cut[Len(c)] = Len(acc)
  /\ \A i \in 1..Len(c) : cut[i] = cut[i - 1] + (IF Heard(buf[c[i]]) THEN 1 ELSE 0)
  /\ \A i \in 1..Len(c) : Heard(buf[c[i]]) => acc[cut[i]] = buf[c[i]].n
  /\ \A i, j \in 0..Len(c) : i <= j => cut[i] <= cut[j]
  /\ \A i \in 1..Len(del) : acc[i] = del[i]

\* An event's contents.
Event == [n : Nat, key : BOOLEAN]

\* The oldest buffer's event reaches the callback, if it is one for it.
LEMMA CutTail ==
  ASSUME NEW c \in Seq(Descs), NEW h \in Descs, NEW b, b = <<h>> \o c, NEW buf \in [Descs -> Event],
         NEW del \in Seq(Nat), NEW acc \in Seq(Nat), NEW cut, IsKeyCut(cut, b, buf, del, acc),
         NEW del2, del2 = (IF Heard(buf[h]) THEN Append(del, buf[h].n) ELSE del)
  PROVE  \E cut2 : IsKeyCut(cut2, c, buf, del2, acc)
<1> DEFINE n == Len(c)
           cut2 == [i \in 0..n |-> cut[i + 1]]
<1>0. /\ n \in Nat /\ b \in Seq(Descs) /\ Len(b) = n + 1 /\ b[1] = h /\ \A i \in 1..n : b[i + 1] = c[i]
  OBVIOUS
<1>1. /\ cut \in [0..n+1 -> Nat] /\ cut[0] = Len(del) /\ cut[n + 1] = Len(acc)
      /\ \A i \in 1..n+1 : cut[i] = cut[i - 1] + (IF Heard(buf[b[i]]) THEN 1 ELSE 0)
      /\ \A i \in 1..n+1 : Heard(buf[b[i]]) => acc[cut[i]] = buf[b[i]].n
      /\ \A i, j \in 0..n+1 : i <= j => cut[i] <= cut[j]
      /\ \A i \in 1..Len(del) : acc[i] = del[i]
  BY <1>0 DEF IsKeyCut
<1> HIDE DEF n
<1>2. /\ \A i \in 0..n : i + 1 \in 0..n+1 /\ i + 1 \in 1..n+1
      /\ \A i \in 1..n : i - 1 \in 0..n /\ i \in 0..n /\ (i + 1) - 1 = i /\ (i - 1) + 1 = i
      /\ \A i, j \in 0..n : i <= j => i + 1 <= j + 1
      /\ 0 \in 0..n /\ n \in 0..n /\ 0 + 1 = 1 /\ 1 - 1 = 0 /\ 1 \in 1..n+1 /\ 1 \in 0..n+1
  BY <1>0, SMTT(30)
<1>3. cut2 \in [0..n -> Nat] /\ \A i \in 0..n : cut2[i] = cut[i + 1]
  BY <1>1, <1>2
<1> HIDE DEF cut2
<1>4. cut2[0] = Len(del2) /\ del2 \in Seq(Nat) /\ \A i \in 1..Len(del2) : acc[i] = del2[i]
  <2>1. cut2[0] = cut[1] /\ cut[1] = cut[0] + (IF Heard(buf[h]) THEN 1 ELSE 0)
    BY <1>0, <1>1, <1>2, <1>3
  <2>2. CASE Heard(buf[h])
    <3>1. del2 = Append(del, buf[h].n) /\ buf[h].n \in Nat
      BY <2>2 DEF Event
    <3>2. cut[1] = Len(del) + 1 /\ acc[cut[1]] = buf[h].n
      <4>1. Heard(buf[b[1]]) => acc[cut[1]] = buf[b[1]].n
        BY <1>1, <1>2
      <4>2. cut[1] = Len(del) + 1
        BY <1>1, <2>1, <2>2
      <4>3. acc[cut[1]] = buf[h].n
        BY <1>0, <2>2, <4>1
      <4> QED
        BY <4>2, <4>3
    <3>3. /\ del2 \in Seq(Nat) /\ Len(del2) = Len(del) + 1 /\ del2[Len(del) + 1] = buf[h].n
          /\ \A i \in 1..Len(del) : del2[i] = del[i]
      BY <3>1
    <3>4. \A i \in 1..Len(del)+1 : i \in 1..Len(del) \/ i = Len(del) + 1
      OBVIOUS
    <3> QED
      BY <1>1, <2>1, <3>2, <3>3, <3>4
  <2>3. CASE ~Heard(buf[h])
    BY <1>1, <2>1, <2>3
  <2> QED
    BY <2>2, <2>3
<1>5. cut2[n] = Len(acc)
  BY <1>1, <1>2, <1>3
<1>6. ASSUME NEW i \in 1..n
      PROVE  /\ cut2[i] = cut2[i - 1] + (IF Heard(buf[c[i]]) THEN 1 ELSE 0)
             /\ Heard(buf[c[i]]) => acc[cut2[i]] = buf[c[i]].n
  <2>1. cut2[i] = cut[i + 1] /\ cut2[i - 1] = cut[i] /\ b[i + 1] = c[i] /\ i + 1 \in 1..n+1 /\ (i + 1) - 1 = i
    <3>1. i - 1 \in 0..n /\ i \in 0..n /\ (i - 1) + 1 = i
      BY <1>2
    <3> QED
      BY <1>0, <1>2, <1>3, <3>1
  <2>2. /\ cut[i + 1] = cut[(i + 1) - 1] + (IF Heard(buf[b[i + 1]]) THEN 1 ELSE 0)
        /\ Heard(buf[b[i + 1]]) => acc[cut[i + 1]] = buf[b[i + 1]].n
    BY <1>1, <2>1
  <2> QED
    BY <2>1, <2>2
<1>7. \A i, j \in 0..n : i <= j => cut2[i] <= cut2[j]
  BY <1>1, <1>2, <1>3
<1> QED
  BY <1>3, <1>4, <1>5, <1>6, <1>7 DEF IsKeyCut, n

Missing(c, h) == \A i \in 1..Len(c) : c[i] # h
IsAppend(d, c, h) == d = Append(c, h)
IsTold(new, old, e) == new = (IF Heard(e) THEN Append(old, e.n) ELSE old)
SameElsewhere(f, g, h) == \A x \in Descs : x # h => f[x] = g[x]

\* The device fills a buffer that is not among those coming.
LEMMA CutAppend ==
  ASSUME NEW c \in Seq(Descs), NEW h \in Descs, Missing(c, h), NEW d, IsAppend(d, c, h),
         NEW buf \in [Descs -> Event], NEW buf2 \in [Descs -> Event],
         SameElsewhere(buf2, buf, h),
         NEW del \in Seq(Nat), NEW acc \in Seq(Nat), NEW cut, IsKeyCut(cut, c, buf, del, acc),
         NEW acc2, IsTold(acc2, acc, buf2[h])
  PROVE  \E cut2 : IsKeyCut(cut2, d, buf2, del, acc2)
<1> DEFINE n == Len(c)
           cut2 == [i \in 0..n+1 |-> IF i = n + 1 THEN Len(acc2) ELSE cut[i]]
<1>0. /\ n \in Nat /\ d \in Seq(Descs) /\ Len(d) = n + 1 /\ d[n + 1] = h
      /\ \A i \in 1..n : d[i] = c[i] /\ buf2[d[i]] = buf[c[i]]
  BY DEF Missing, SameElsewhere, IsAppend
<1>1. /\ cut \in [0..n -> Nat] /\ cut[0] = Len(del) /\ cut[n] = Len(acc)
      /\ \A i \in 1..n : cut[i] = cut[i - 1] + (IF Heard(buf[c[i]]) THEN 1 ELSE 0)
      /\ \A i \in 1..n : Heard(buf[c[i]]) => acc[cut[i]] = buf[c[i]].n
      /\ \A i, j \in 0..n : i <= j => cut[i] <= cut[j]
      /\ \A i \in 1..Len(del) : acc[i] = del[i]
  BY DEF IsKeyCut
<1>2. /\ acc2 \in Seq(Nat) /\ Len(acc2) = Len(acc) + (IF Heard(buf2[h]) THEN 1 ELSE 0)
      /\ Heard(buf2[h]) => acc2[Len(acc2)] = buf2[h].n
      /\ \A i \in 1..Len(acc) : acc2[i] = acc[i]
      /\ Len(acc) \in Nat /\ Len(acc2) \in Nat /\ Len(acc) <= Len(acc2)
  <2>1. CASE Heard(buf2[h])
    <3>1. acc2 = Append(acc, buf2[h].n) /\ buf2[h].n \in Nat
      BY <2>1 DEF Event, IsTold
    <3> QED
      BY <2>1, <3>1
  <2>2. CASE ~Heard(buf2[h])
    BY <2>2 DEF IsTold
  <2> QED
    BY <2>1, <2>2
<1> HIDE DEF n
<1>3. /\ \A i \in 0..n+1 : i \in 0..n \/ i = n + 1
      /\ \A i \in 0..n : i \in 0..n+1 /\ i # n + 1 /\ i <= n
      /\ \A i \in 1..n+1 : i \in 1..n \/ i = n + 1
      /\ \A i \in 1..n : i \in 0..n /\ i - 1 \in 0..n
      /\ n + 1 \in 0..n+1 /\ (n + 1) - 1 = n /\ n \in 0..n /\ 0 \in 0..n
      /\ \A i \in 0..n : ~(n + 1 <= i)
  BY <1>0
<1>4. /\ cut2[n + 1] = Len(acc2) /\ \A i \in 0..n : cut2[i] = cut[i]
      /\ cut2 \in [0..n+1 -> Nat]
  BY <1>1, <1>2, <1>3
<1> HIDE DEF cut2
<1>5. cut2[0] = Len(del) /\ \A i \in 0..n : cut[i] <= Len(acc) /\ cut[i] \in Nat
  BY <1>1, <1>3, <1>4
<1>6. ASSUME NEW i \in 1..n PROVE cut[i] >= 1 \/ ~Heard(buf[c[i]])
  <2>1. cut[i - 1] \in Nat /\ cut[i] = cut[i - 1] + (IF Heard(buf[c[i]]) THEN 1 ELSE 0)
    BY <1>1, <1>3
  <2> QED
    BY <2>1
<1>7. ASSUME NEW i \in 1..n+1
      PROVE  /\ cut2[i] = cut2[i - 1] + (IF Heard(buf2[d[i]]) THEN 1 ELSE 0)
             /\ Heard(buf2[d[i]]) => acc2[cut2[i]] = buf2[d[i]].n
  <2>1. CASE i = n + 1
    <3>1. cut2[i] = Len(acc2) /\ cut2[i - 1] = Len(acc) /\ d[i] = h
      BY <1>0, <1>1, <1>3, <1>4, <2>1
    <3> QED
      BY <1>2, <3>1
  <2>2. CASE i \in 1..n
    <3>1. cut2[i] = cut[i] /\ cut2[i - 1] = cut[i - 1] /\ buf2[d[i]] = buf[c[i]]
      BY <1>0, <1>3, <1>4, <2>2
    <3>2. cut[i] = cut[i - 1] + (IF Heard(buf[c[i]]) THEN 1 ELSE 0)
      BY <1>1, <2>2
    <3>3. Heard(buf[c[i]]) => cut[i] \in 1..Len(acc) /\ acc[cut[i]] = buf[c[i]].n
      BY <1>1, <1>2, <1>3, <1>5, <1>6, <2>2
    <3> QED
      BY <1>2, <3>1, <3>2, <3>3
  <2> QED
    BY <1>3, <2>1, <2>2
<1>8. \A i, j \in 0..n+1 : i <= j => cut2[i] <= cut2[j]
  <2> SUFFICES ASSUME NEW i \in 0..n+1, NEW j \in 0..n+1, i <= j PROVE cut2[i] <= cut2[j]
    OBVIOUS
  <2>1. CASE j \in 0..n
    <3>1. i \in 0..n
      BY <1>3, <2>1
    <3> QED
      BY <1>1, <1>4, <2>1, <3>1
  <2>2. CASE j = n + 1 /\ i \in 0..n
    <3>1. cut2[j] = Len(acc2) /\ cut2[i] = cut[i] /\ cut[i] <= Len(acc) /\ cut[i] \in Nat
      BY <1>4, <1>5, <2>2
    <3> QED
      BY <1>2, <3>1
  <2>3. CASE j = n + 1 /\ i = n + 1
    BY <1>2, <1>4, <2>3
  <2> QED
    BY <1>3, <2>1, <2>2, <2>3
<1>9. \A i \in 1..Len(del) : acc2[i] = del[i]
  <2>1. Len(del) \in Nat /\ Len(del) <= Len(acc)
    BY <1>1, <1>3, <1>5
  <2>2. \A i \in 1..Len(del) : i \in 1..Len(acc)
    BY <1>2, <2>1
  <2> QED
    BY <1>1, <1>2, <2>2
<1> QED
  BY <1>0, <1>4, <1>5, <1>7, <1>8, <1>9 DEF IsKeyCut

\* What the recursion of KeysOf computes: the accepted events not yet delivered.
LEMMA KeysOfCut ==
  ASSUME NEW c \in Seq(Descs), evt_buf \in [Descs -> Event], delivered \in Seq(Nat),
         accepted \in Seq(Nat), NEW cut, IsKeyCut(cut, c, evt_buf, delivered, accepted)
  PROVE  delivered \o KeysOf(c) = accepted
<1> DEFINE n == Len(c)
           D == Len(delivered)
           G(m) == [j \in 1..m |-> accepted[D + j]]
           g == [i \in 0..n |-> G(cut[i] - D)]
           body(f) == [i \in 0..n |->
                         IF i = 0 THEN <<>>
                         ELSE IF Heard(evt_buf[c[i]]) THEN Append(f[i - 1], evt_buf[c[i]].n)
                              ELSE f[i - 1]]
<1>0. n \in Nat /\ D \in Nat /\ Len(accepted) \in Nat
  OBVIOUS
<1>1. /\ cut \in [0..n -> Nat] /\ cut[0] = D /\ cut[n] = Len(accepted)
      /\ \A i \in 1..n : cut[i] = cut[i - 1] + (IF Heard(evt_buf[c[i]]) THEN 1 ELSE 0)
      /\ \A i \in 1..n : Heard(evt_buf[c[i]]) => accepted[cut[i]] = evt_buf[c[i]].n
      /\ \A i, j \in 0..n : i <= j => cut[i] <= cut[j]
      /\ \A i \in 1..D : accepted[i] = delivered[i]
  BY DEF IsKeyCut
<1>2. KeysOf(c) = (CHOOSE f : f = body(f))[n]
  BY DEF KeysOf
<1> HIDE DEF n, D
<1>3. \A i \in 0..n : cut[i] \in Nat /\ D <= cut[i] /\ cut[i] <= Len(accepted) /\ cut[i] - D \in Nat
  <2>1. \A i \in 0..n : 0 \in 0..n /\ n \in 0..n /\ 0 <= i /\ i <= n
    BY <1>0
  <2> QED
    BY <1>0, <1>1, <2>1
<1>4. \A i \in 1..n : i \in 0..n /\ i - 1 \in 0..n /\ i # 0
  BY <1>0
<1>5. ASSUME NEW m \in Nat, D + m <= Len(accepted)
      PROVE  G(m) \in Seq(Nat) /\ Len(G(m)) = m /\ \A j \in 1..m : G(m)[j] = accepted[D + j]
  <2>1. \A j \in 1..m : D + j \in 1..Len(accepted)
    BY <1>0, <1>5
  <2>2. \A j \in 1..m : accepted[D + j] \in Nat
    BY <2>1
  <2> QED
    BY <2>2
<1>6. g[0] = <<>>
  <2>1. 0 \in 0..n /\ cut[0] - D = 0
    BY <1>0, <1>1
  <2>2. g[0] = G(0)
    BY <2>1
  <2>3. G(0) = <<>>
    OBVIOUS
  <2> QED
    BY <2>2, <2>3
<1>7. ASSUME NEW i \in 1..n, Heard(evt_buf[c[i]]) PROVE g[i] = Append(g[i - 1], evt_buf[c[i]].n)
  <2> DEFINE m == cut[i - 1] - D
             e == evt_buf[c[i]].n
  <2>1. m \in Nat /\ cut[i] - D = m + 1 /\ D + m <= Len(accepted) /\ D + (m + 1) <= Len(accepted)
        /\ accepted[D + (m + 1)] = e
    <3>1. cut[i] = cut[i - 1] + 1 /\ accepted[cut[i]] = e
      BY <1>1, <1>7
    <3>2. /\ cut[i - 1] \in Nat /\ D <= cut[i - 1] /\ cut[i] \in Nat /\ cut[i] <= Len(accepted)
      BY <1>3, <1>4
    <3>3. D + (m + 1) = cut[i]
      BY <1>0, <3>1, <3>2
    <3>4. accepted[D + (m + 1)] = e
      BY <3>1, <3>3, Zenon
    <3>5. m \in Nat /\ cut[i] - D = m + 1 /\ D + m <= Len(accepted) /\ D + (m + 1) <= Len(accepted)
      <4>2. cut[i] = cut[i - 1] + 1
        BY <3>1
      <4>3. cut[i - 1] \in Nat /\ D <= cut[i - 1] /\ cut[i] \in Nat /\ cut[i] <= Len(accepted)
        BY <3>2
      <4>4. m \in Nat
        BY <1>0, <4>3
      <4>5. cut[i] - D = m + 1
        BY <1>0, <4>2, <4>3
      <4>6. D + m <= Len(accepted)
        BY <1>0, <4>2, <4>3
      <4>7. D + (m + 1) <= Len(accepted)
        BY <1>0, <4>2, <4>3
      <4> QED
        BY <4>4, <4>5, <4>6, <4>7
    <3> QED
      BY <3>4, <3>5
  <2>2. g[i] = G(m + 1) /\ g[i - 1] = G(m)
    BY <1>4, <2>1
  <2> HIDE DEF m, e, g, G
  <2>3. /\ G(m) \in Seq(Nat) /\ Len(G(m)) = m /\ \A j \in 1..m : G(m)[j] = accepted[D + j]
        /\ G(m + 1) \in Seq(Nat) /\ Len(G(m + 1)) = m + 1
        /\ \A j \in 1..m+1 : G(m + 1)[j] = accepted[D + j]
    <3>1. m + 1 \in Nat
      BY <2>1
    <3>2. G(m) \in Seq(Nat) /\ Len(G(m)) = m /\ \A j \in 1..m : G(m)[j] = accepted[D + j]
      BY <1>5, <2>1
    <3>3. /\ G(m + 1) \in Seq(Nat) /\ Len(G(m + 1)) = m + 1
          /\ \A j \in 1..m+1 : G(m + 1)[j] = accepted[D + j]
      BY <1>5, <2>1, <3>1
    <3> QED
      BY <3>2, <3>3
  <2>4. \A j \in 1..m+1 : j \in 1..m \/ j = m + 1
    BY <2>1
  <2>5. m + 1 \in 1..m+1 /\ \A j \in 1..m : j \in 1..m+1
    BY <2>1
  <2>6. G(m + 1)[m + 1] = e /\ e \in Nat
    BY <2>1, <2>3, <2>5
  <2>7. /\ Append(G(m), e) \in Seq(Nat) /\ Len(Append(G(m), e)) = m + 1
        /\ Append(G(m), e)[m + 1] = e /\ \A j \in 1..m : Append(G(m), e)[j] = G(m)[j]
    BY <2>1, <2>3, <2>6, SeqAppend
  <2>8. \A j \in 1..m+1 : G(m + 1)[j] = Append(G(m), e)[j]
    BY <2>3, <2>4, <2>5, <2>6, <2>7
  <2>9. G(m + 1) = Append(G(m), e)
    BY <2>1, <2>3, <2>7, <2>8, EqualEverywhere, SMTT(30)
  <2> QED
    BY <2>2, <2>9 DEF e
<1>8. ASSUME NEW i \in 1..n, ~Heard(evt_buf[c[i]]) PROVE g[i] = g[i - 1]
  <2>1. cut[i] = cut[i - 1]
    BY <1>1, <1>3, <1>4, <1>8
  <2> QED
    BY <1>4, <2>1
<1>9. g = body(g)
  <2> HIDE DEF G
  <2>1. ASSUME NEW i \in 0..n
        PROVE g[i] = IF i = 0 THEN <<>>
                     ELSE IF Heard(evt_buf[c[i]]) THEN Append(g[i - 1], evt_buf[c[i]].n) ELSE g[i - 1]
    <3>1. i = 0 \/ i \in 1..n
      BY <1>0
    <3> HIDE DEF g
    <3> QED
      BY <1>4, <1>6, <1>7, <1>8, <3>1
  <2>2. g = [i \in 0..n |-> g[i]]
    OBVIOUS
  <2> HIDE DEF g
  <2> QED
    BY <2>1, <2>2
<1> DEFINE f == CHOOSE x : x = body(x)
<1>10. f = body(f)
  <2> HIDE DEF body, g
  <2> QED
    BY <1>9, Zenon
<1> HIDE DEF f
<1>11. \A i \in 0..n : f[i] = g[i]
  <2> DEFINE bad == {i \in 0..n : f[i] # g[i]}
  <2> SUFFICES ASSUME bad # {} PROVE FALSE
    OBVIOUS
  <2>0. bad \subseteq Nat
    BY <1>0
  <2>1. PICK i \in bad : \A j \in bad : i <= j
    BY <2>0, SmallestOf
  <2> HIDE DEF g
  <2>2. f[0] = <<>> /\ 0 \in 0..n
    BY <1>0, <1>10
  <2>3. i # 0 /\ i \in 0..n
    BY <1>6, <2>1, <2>2
  <2>4. i \in 1..n /\ i - 1 \in 0..n /\ ~(i <= i - 1)
    BY <1>0, <2>3
  <2>5. f[i - 1] = g[i - 1]
    BY <2>1, <2>4
  <2>6. f[i] = IF Heard(evt_buf[c[i]]) THEN Append(f[i - 1], evt_buf[c[i]].n) ELSE f[i - 1]
    BY <1>10, <2>3
  <2>7. f[i] = g[i]
    <3>1. CASE Heard(evt_buf[c[i]])
      <4>1. g[i] = Append(g[i - 1], evt_buf[c[i]].n)
        BY <1>7, <2>4, <3>1
      <4> QED
        BY <2>5, <2>6, <3>1, <4>1
    <3>2. CASE ~Heard(evt_buf[c[i]])
      <4>1. g[i] = g[i - 1]
        BY <1>8, <2>4, <3>2
      <4> QED
        BY <2>5, <2>6, <3>2, <4>1
    <3> QED
      BY <3>1, <3>2
  <2> QED
    BY <2>1, <2>7
<1> DEFINE m == Len(accepted) - D
<1>12. KeysOf(c) = G(m) /\ m \in Nat /\ D + m = Len(accepted)
  <2>1. n \in 0..n /\ g[n] = G(m)
    BY <1>0, <1>1
  <2>2. KeysOf(c) = f[n]
    BY <1>2 DEF f
  <2> HIDE DEF g, G
  <2>3. m \in Nat /\ D + m = Len(accepted)
    BY <1>0, <1>1, <1>3, <2>1
  <2> QED
    BY <1>11, <2>1, <2>2, <2>3
<1> HIDE DEF G, m
<1>13. G(m) \in Seq(Nat) /\ Len(G(m)) = m /\ \A j \in 1..m : G(m)[j] = accepted[D + j]
  BY <1>0, <1>5, <1>12, SMTT(30)
<1> DEFINE all == delivered \o G(m)
<1>14. /\ all \in Seq(Nat) /\ Len(all) = D + m /\ \A i \in 1..D : all[i] = delivered[i]
       /\ \A i \in D+1..D+m : all[i] = G(m)[i - D]
  BY <1>0, <1>12, <1>13, SMTT(30) DEF D
<1> HIDE DEF all
<1>15. \A i \in D+1..D+m : i - D \in 1..m /\ D + (i - D) = i
  BY <1>0, <1>12
<1>16. \A i \in D+1..D+m : all[i] = accepted[i]
  BY <1>13, <1>14, <1>15
<1>17. \A i \in 1..D+m : i \in 1..D \/ i \in D+1..D+m
  BY <1>0, <1>12
<1>18. \A i \in 1..D+m : all[i] = accepted[i]
  BY <1>1, <1>14, <1>16, <1>17
<1>19. all = accepted
  BY <1>0, <1>12, <1>14, <1>18, EqualEverywhere
<1> QED
  BY <1>12, <1>19 DEF all

KeysCut == \E cut : IsKeyCut(cut, Coming, evt_buf, delivered, accepted)

KeysInv ==
  /\ InputInv
  /\ evt_buf \in [Descs -> Event] /\ emitted \in Nat
  /\ delivered \in Seq(Nat) /\ accepted \in Seq(Nat)
  /\ KeysCut

\* The buffers coming are descriptors that the device does not have.
LEMMA ComingIs ==
  ASSUME InputInv
  PROVE  /\ UsedSeq \in Seq(Descs) /\ IsWindow(UsedSeq, used_ring, last_used_idx, used_idx)
         /\ Coming \in Seq(Descs)
         /\ pc = "event" => head \in Descs /\ Coming = <<head>> \o UsedSeq
         /\ pc # "event" => Coming = UsedSeq
         /\ inits > 0 => \A i \in 1..Len(Coming) : Coming[i] \notin dev_has
<1> USE DEF InputInv
<1>1. IsWindow(UsedSeq, used_ring, last_used_idx, used_idx)
  BY DEF UsedSeq, IsWindow
<1>2. /\ UsedSeq \in Seq(Descs) /\ Len(UsedSeq) = Ahead(used_idx, last_used_idx)
      /\ \A k \in 1..Len(UsedSeq) : UsedSeq[k] = used_ring[Slot(last_used_idx, k)]
  BY <1>1, WindowSeq DEF InputTypeOK
<1>3. pc = "event" => inits > 0 /\ head \in InHand
  BY DEF InputTypeOK, InputOff, InHand
<1>4. pc = "event" => head \in Descs
  BY <1>3, HandAndRings
<1>5. /\ pc = "event" => Coming = <<head>> \o UsedSeq
      /\ pc # "event" => Coming = UsedSeq
  <2>1. <<>> \o UsedSeq = UsedSeq
    BY <1>2
  <2> QED
    BY <2>1 DEF Coming
<1>6. Coming \in Seq(Descs)
  BY <1>2, <1>4, <1>5, SMTT(30)
<1>7. ASSUME inits > 0 PROVE \A i \in 1..Len(Coming) : Coming[i] \notin dev_has
  <2>1. PICK fl : Separate(Listed(fl, num_free), InHand, InAvail, dev_has, InUsed)
    BY <1>7 DEF Owned
  <2>2. InHand \cap dev_has = {} /\ InUsed \cap dev_has = {}
    BY <2>1 DEF Separate
  <2>3. \A k \in 1..Len(UsedSeq) : UsedSeq[k] \in InUsed
    BY <1>2 DEF InUsed, Entries
  <2>4. CASE pc = "event"
    <3>1. \A i \in 1..Len(Coming) : Coming[i] = head \/ \E k \in 1..Len(UsedSeq) : Coming[i] = UsedSeq[k]
      <4> SUFFICES ASSUME NEW i \in 1..Len(Coming)
                   PROVE Coming[i] = head \/ \E k \in 1..Len(UsedSeq) : Coming[i] = UsedSeq[k]
        OBVIOUS
      <4>0. Coming = <<head>> \o UsedSeq /\ Len(UsedSeq) \in Nat /\ Len(Coming) = Len(UsedSeq) + 1
        BY <1>2, <1>4, <1>5, <2>4
      <4>1. CASE i = 1
        BY <1>2, <1>4, <4>0, <4>1, <2>4
      <4>2. CASE i # 1
        <5>1. i - 1 \in 1..Len(UsedSeq) /\ Coming[i] = UsedSeq[i - 1]
          BY <1>2, <1>4, <4>0, <4>2, <2>4
        <5> QED
          BY <5>1
      <4> QED
        BY <4>1, <4>2
    <3> QED
      BY <1>3, <2>2, <2>3, <2>4, <3>1
  <2>5. CASE pc # "event"
    BY <1>5, <2>2, <2>3, <2>5
  <2> QED
    BY <2>4, <2>5
<1> QED
  BY <1>1, <1>2, <1>4, <1>5, <1>6, <1>7

LEMMA KeysInit == ASSUME VirtioInit, dev = "input" PROVE KeysInv
<1>1. InputInv
  BY InputInit
<1>2. /\ pc = "off" /\ used_idx = 0 /\ last_used_idx = 0
      /\ evt_buf = [d \in Descs |-> NoEvent] /\ emitted = 0 /\ delivered = <<>> /\ accepted = <<>>
  BY DEF VirtioInit, VirtqInit
<1>3. Len(Coming) = 0 /\ Coming \in Seq(Descs)
  <2>1. Ahead(0, 0) = 0
    BY QueueFacts, AheadInc
  <2>2. Len(UsedSeq) = 0
    BY <1>1, <1>2, <2>1, ComingIs, WindowSeq DEF InputInv, InputTypeOK
  <2> QED
    BY <1>1, <1>2, <2>2, ComingIs
<1>4. IsKeyCut([i \in 0..0 |-> 0], Coming, evt_buf, delivered, accepted)
  BY <1>2, <1>3 DEF IsKeyCut
<1>5. evt_buf \in [Descs -> Event]
  BY <1>2 DEF NoEvent, Event
<1>6. emitted \in Nat /\ delivered \in Seq(Nat) /\ accepted \in Seq(Nat)
  BY <1>2
<1>7. KeysCut
  BY <1>4 DEF KeysCut
<1> QED
  BY <1>1, <1>5, <1>6, <1>7 DEF KeysInv

\* Steps that leave the events alone.
LEMMA KeysStay ==
  ASSUME KeysInv, InputInv', Coming' = Coming, UNCHANGED <<evt_buf, emitted, delivered, accepted>>
  PROVE  KeysInv'
  BY DEF KeysInv, KeysCut

LEMMA KeysSetup == ASSUME KeysInv, Setup PROVE KeysInv'
<1> USE DEF KeysInv
<1>1. InputInv'
  BY InputSetup
<1>2. /\ pc' = "refill" /\ used_idx' = 0 /\ last_used_idx' = 0 /\ accepted' = delivered
      /\ UNCHANGED <<evt_buf, emitted, delivered>>
  BY DEF Setup, QueueSetup, InputInv, InputTypeOK
<1>3. UsedSeq' = <<>>
  <2>1. Ahead(0, 0) = 0
    BY QueueFacts, AheadInc
  <2>2. UsedSeq' = [k \in 1..Ahead(used_idx', last_used_idx') |-> used_ring'[(last_used_idx' + k - 1) % QSize]]
    BY DEF UsedSeq
  <2>3. 1..Ahead(used_idx', last_used_idx') = {}
    BY <1>2, <2>1
  <2> QED
    BY <2>2, <2>3
<1>4. Coming' = <<>>
  BY <1>2, <1>3 DEF Coming
<1>5. IsKeyCut([i \in 0..0 |-> Len(delivered)], <<>>, evt_buf, delivered, delivered)
  BY DEF IsKeyCut
<1>6. KeysCut'
  BY <1>2, <1>4, <1>5 DEF KeysCut
<1> QED
  BY <1>1, <1>2, <1>6

\* The pop moves the oldest event from the ring into the driver's hand.
LEMMA KeysPop == ASSUME KeysInv, InputPop PROVE KeysInv'
<1> USE DEF KeysInv
<1>1. InputInv'
  BY InputTakes
<1>2. /\ pc = "pop" /\ pc' = "event" /\ used_idx # last_used_idx
      /\ head' = used_ring[last_used_idx % QSize] /\ last_used_idx' = Inc(last_used_idx)
      /\ UNCHANGED <<used_ring, used_idx, evt_buf, emitted, delivered, accepted>>
  BY DEF InputPop, At, UsedPending, UsedId, UsedTake
<1>3. IsWindow(UsedSeq, used_ring, last_used_idx, used_idx) /\ Coming = UsedSeq
  BY <1>2, ComingIs
<1>4. IsWindow(UsedSeq', used_ring, Inc(last_used_idx), used_idx)
  BY <1>2 DEF UsedSeq, IsWindow
<1>5. UsedSeq = <<head'>> \o UsedSeq'
  <2>1. used_ring \in [Descs -> Descs] /\ last_used_idx \in Idx /\ used_idx \in Idx
    BY DEF InputInv, InputTypeOK
  <2> QED
    BY <1>2, <1>3, <1>4, <2>1, WindowShrinks
<1>6. Coming' = Coming
  BY <1>2, <1>3, <1>5 DEF Coming
<1> QED
  BY <1>1, <1>2, <1>6, KeysStay

LEMMA KeysHeard == ASSUME KeysInv, InputEvent PROVE KeysInv'
<1> USE DEF KeysInv
<1>1. InputInv'
  BY InputFrees
<1>2. /\ pc = "event" /\ pc' = "pop"
      /\ delivered' = (IF Heard(evt_buf[head]) THEN Append(delivered, evt_buf[head].n) ELSE delivered)
      /\ UNCHANGED <<used_ring, used_idx, last_used_idx, evt_buf, emitted, accepted>>
  BY DEF InputEvent, At, rings
<1>3. UsedSeq \in Seq(Descs) /\ head \in Descs /\ Coming = <<head>> \o UsedSeq
  BY <1>2, ComingIs
<1>4. Coming' = UsedSeq
  <2>1. UsedSeq' = UsedSeq
    BY <1>2 DEF UsedSeq
  <2> QED
    BY <1>2, <1>3, <2>1 DEF Coming
<1>5. PICK cut : IsKeyCut(cut, Coming, evt_buf, delivered, accepted)
  BY DEF KeysCut
<1>6. \E cut2 : IsKeyCut(cut2, UsedSeq, evt_buf, delivered', accepted)
  BY <1>2, <1>3, <1>5, CutTail
<1>7. delivered' \in Seq(Nat)
  <2>1. evt_buf[head].n \in Nat
    BY <1>3 DEF Event
  <2> QED
    BY <1>2, <2>1
<1>8. KeysCut'
  BY <1>2, <1>4, <1>6 DEF KeysCut
<1> QED
  BY <1>1, <1>2, <1>7, <1>8

LEMMA KeysArrive == ASSUME KeysInv, KeyEvent PROVE KeysInv'
<1> USE DEF KeysInv
<1>1. InputInv'
  BY InputDevReturn
<1>2. PICK h \in dev_has, key \in BOOLEAN :
        /\ DevReturn(h)
        /\ evt_buf' = [evt_buf EXCEPT ![h] = [n |-> emitted + 1, key |-> key]]
        /\ accepted' = IF key THEN Append(accepted, emitted + 1) ELSE accepted
  BY DEF KeyEvent
<1>3. emitted' = emitted + 1 /\ UNCHANGED <<pc, inits, head, delivered>>
  BY DEF KeyEvent
<1>4. /\ Updated(used_ring', used_ring, used_idx % QSize, h) /\ used_idx' = Inc(used_idx)
      /\ UNCHANGED last_used_idx
  BY <1>2 DEF DevReturn, Updated
<1>5. inits > 0
  BY DEF InputInv, InputOff, InputTypeOK
<1>6. h \in Descs /\ Ahead(used_idx, last_used_idx) < QSize
  BY <1>5, HandAndRings DEF InputInv
<1>7. \A i \in 1..Len(Coming) : Coming[i] # h
  BY <1>5, ComingIs
<1>8. evt_buf' \in [Descs -> Event] /\ evt_buf'[h].n = emitted + 1 /\ Heard(evt_buf'[h]) = key
      /\ \A x \in Descs : x # h => evt_buf'[x] = evt_buf[x]
  <2>1. [n |-> emitted + 1, key |-> key] \in Event
    BY DEF Event
  <2>2. evt_buf'[h] = [n |-> emitted + 1, key |-> key]
    BY <1>2, <1>6
  <2> QED
    BY <1>2, <1>6, <2>1, <2>2 DEF Heard
<1>9. accepted' = (IF Heard(evt_buf'[h]) THEN Append(accepted, evt_buf'[h].n) ELSE accepted)
  BY <1>2, <1>8
<1>10. UsedSeq' = Append(UsedSeq, h)
  <2>1. used_ring \in [Descs -> Descs] /\ last_used_idx \in Idx /\ used_idx \in Idx
    BY DEF InputInv, InputTypeOK
  <2>2. /\ used_ring' \in [Descs -> Descs] /\ used_ring'[used_idx % QSize] = h
        /\ \A k \in 1..Ahead(used_idx, last_used_idx) :
             used_ring'[Slot(last_used_idx, k)] = used_ring[Slot(last_used_idx, k)]
    BY <1>4, <1>6, <2>1, RingWrite
  <2>3. /\ IsWindow(UsedSeq, used_ring, last_used_idx, used_idx)
        /\ IsWindow(UsedSeq', used_ring', last_used_idx, Inc(used_idx))
    BY <1>4 DEF UsedSeq, IsWindow
  <2> QED
    BY <1>6, <2>1, <2>2, <2>3, WindowGrows
<1>11. Coming' = Append(Coming, h) /\ Coming \in Seq(Descs)
  <2>1. UsedSeq \in Seq(Descs) /\ Coming \in Seq(Descs) /\ (pc = "event" => head \in Descs)
    BY ComingIs
  <2>2. <<head>> \o Append(UsedSeq, h) = Append(<<head>> \o UsedSeq, h)
    BY <1>6, <2>1
  <2>3. <<>> \o Append(UsedSeq, h) = Append(<<>> \o UsedSeq, h)
    BY <1>6, <2>1
  <2> QED
    BY <1>3, <1>10, <2>1, <2>2, <2>3 DEF Coming
<1>12. PICK cut : IsKeyCut(cut, Coming, evt_buf, delivered, accepted)
  BY DEF KeysCut
<1>13. \E cut2 : IsKeyCut(cut2, Coming', evt_buf', delivered, accepted')
  <2>1. /\ evt_buf \in [Descs -> Event] /\ evt_buf' \in [Descs -> Event]
        /\ delivered \in Seq(Nat) /\ accepted \in Seq(Nat)
    BY <1>8
  <2>2. SameElsewhere(evt_buf', evt_buf, h)
    BY <1>8 DEF SameElsewhere
  <2>3. Missing(Coming, h)
    BY <1>7 DEF Missing
  <2>4. IsAppend(Coming', Coming, h) /\ IsTold(accepted', accepted, evt_buf'[h])
    BY <1>9, <1>11 DEF IsAppend, IsTold
  <2> QED
    BY <1>6, <1>11, <1>12, <2>1, <2>2, <2>3, <2>4, CutAppend
<1>14. accepted' \in Seq(Nat) /\ emitted' \in Nat
  BY <1>2, <1>3
<1>15. KeysCut'
  BY <1>3, <1>13 DEF KeysCut
<1> QED
  BY <1>1, <1>3, <1>8, <1>14, <1>15

LEMMA KeysStep == ASSUME KeysInv, [VirtioNext]_virtioVars PROVE KeysInv'
<1>1. InputInv /\ InputInv' /\ dev = "input"
  BY InputStep DEF KeysInv, InputInv, InputTypeOK
<1>2. ~GpuCmd /\ ~GpuPop /\ ~Present /\ ~GpuAnswer
  BY <1>1 DEF GpuCmd, GpuPop, Present, GpuAnswer, At
<1>3. ASSUME PushEntry \/ PushIndex \/ Notify \/ RefillDesc \/ RefillDone \/ InputPoll
             \/ InputDrained \/ Take \/ UNCHANGED virtioVars
      PROVE  KeysInv'
  <2>1. UNCHANGED <<used_ring, used_idx, last_used_idx, evt_buf, emitted, delivered, accepted>>
    BY <1>3 DEF PushEntry, PushIndex, Notify, RefillDesc, RefillDone, InputPoll, InputDrained, Take,
                DevTake, rings, queueVars, inputVars, virtioVars
  <2>2. pc' = "event" <=> pc = "event"
    BY <1>1, <1>3 DEF PushEntry, PushIndex, Notify, RefillDesc, RefillDone, InputPoll, InputDrained,
                      Take, At, virtioVars
  <2>3. pc = "event" => head' = head
    BY <1>3 DEF PushEntry, PushIndex, Notify, RefillDesc, RefillDone, InputPoll, InputDrained,
                Take, At, virtioVars
  <2>4. UsedSeq' = UsedSeq
    BY <2>1 DEF UsedSeq
  <2>5. Coming' = Coming
    BY <2>2, <2>3, <2>4 DEF Coming
  <2> QED
    BY <1>1, <2>1, <2>5, KeysStay
<1> QED
  BY <1>2, <1>3, KeysSetup, KeysPop, KeysHeard, KeysArrive DEF VirtioNext, Driver

\* The callback hears of every key transition that the device had a buffer for,
\* once and in the order of the device, for queues of any size and whatever the
\* order in which the device uses the buffers.
THEOREM KeysInOrderHolds == VirtioSpec => []KeysInOrder
<1>1. VirtioInit => GpuInv \/ KeysInv
  BY GpuInit, KeysInit DEF VirtioInit
<1>2. (GpuInv \/ KeysInv) /\ [VirtioNext]_virtioVars => (GpuInv \/ KeysInv)'
  BY GpuStep, KeysStep
<1>3. GpuInv => KeysInOrder
  BY DEF GpuInv, GpuTypeOK, KeysInOrder
<1>4. KeysInv => KeysInOrder
  <2> SUFFICES ASSUME KeysInv PROVE delivered \o KeysOf(Coming) = accepted
    BY DEF KeysInOrder
  <2>1. Coming \in Seq(Descs)
    BY ComingIs DEF KeysInv
  <2>2. PICK cut : IsKeyCut(cut, Coming, evt_buf, delivered, accepted)
    BY DEF KeysInv, KeysCut
  <2> QED
    BY <2>1, <2>2, KeysOfCut DEF KeysInv
<1> QED
  BY <1>1, <1>2, <1>3, <1>4, PTL DEF VirtioSpec
=============================================================================
