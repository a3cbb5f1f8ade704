----------------------------- MODULE DiskProofs -----------------------------
(***************************************************************************)
(* Proofs about the block layer and the NVMe driver (fatfs_disk.c, nvme.c):*)
(* for queues, list pages and pages of any size, and calls of any number   *)
(* and length.                                                             *)
(*                                                                         *)
(* Three invariants: the driver's own state (DriverInv); where the one     *)
(* command under way is, until a poll has given up (QueueInv); and how far *)
(* setup_prp has got with the list (PrpInv).                               *)
(***************************************************************************)
EXTENDS Disk, TLAPS

-----------------------------------------------------------------------------
(***************************************************************************)
(* The driver.                                                             *)
(***************************************************************************)

InCall == pc \in {"fill", "prp", "poll"}

\* What io_cmd puts into the SQE.
IsBatch(c) ==
  /\ c.num = cmds /\ c.lo = call.done /\ c.addr = call.off + call.done
  /\ c.n \in Nat \ {0} /\ c.n <= MaxTransfer /\ call.done + c.n <= call.nlb
  /\ call.done + c.n < call.nlb => c.n = MaxTransfer
  /\ c.prp2 = Prp2(c.addr, c.n)

DriverTypeOK ==
  /\ pc \in {"off", "idle", "fill", "prp", "poll"}
  /\ call \in [off : Nat, nlb : Nat, done : Nat]
  /\ sq = [i \in Slots |-> sq[i]] /\ sq_tail \in Slots /\ cq_head \in Slots /\ phase \in BOOLEAN
  /\ db_tail \in Slots /\ db_head \in Slots
  /\ cq \in [Slots -> [phase : BOOLEAN, ok : BOOLEAN]]
  /\ dev_head \in Slots /\ dev_tail \in Slots /\ dev_phase \in BOOLEAN
  /\ cmds \in Nat /\ ret \in Nat /\ abandoned \in Nat

DriverInv ==
  /\ DriverTypeOK
  /\ ~InCall => call = NoCall
  /\ InCall => call.done < call.nlb /\ ret = 0
  /\ pc = "prp" => IsBatch(sq[sq_tail])
  /\ pc = "poll" => IsBatch(Own)

LEMMA SuccValue ==
  ASSUME NEW i \in Slots
  PROVE  /\ Succ(i) = (IF i = Depth - 1 THEN 0 ELSE i + 1) /\ Succ(i) \in Slots /\ Succ(i) # i
         /\ (IF Succ(i) = 0 THEN Depth - 1 ELSE Succ(i) - 1) = i
<1>1. Depth \in Nat \ {0, 1} /\ i \in 0..Depth-1
  BY NvmeAssumption DEF Slots
<1>2. Succ(i) = (IF i = Depth - 1 THEN 0 ELSE i + 1)
  <2>1. CASE i = Depth - 1
    BY <1>1, <2>1 DEF Succ
  <2>2. CASE i # Depth - 1
    BY <1>1, <2>2 DEF Succ
  <2> QED
    BY <2>1, <2>2
<1> QED
  BY <1>1, <1>2 DEF Slots

LEMMA TransferSize ==
  /\ LbasPerPage \in Nat \ {0} /\ ListEntries \in Nat \ {0, 1} /\ ListPages \in Nat \ {0}
  /\ MaxTransfer \in Nat \ {0}
<1>1. LbasPerPage \in Nat \ {0} /\ ListEntries \in Nat \ {0, 1} /\ ListPages \in Nat \ {0}
  BY PrpAssumption
<1> DEFINE x == (ListPages - 1) * (ListEntries - 1)
<1>2. x \in Nat
  <2>1. ListPages - 1 \in Nat /\ ListEntries - 1 \in Nat
    BY <1>1
  <2> QED
    BY <2>1
<1> HIDE DEF x
<1> DEFINE y == 1 + x + ListEntries
<1>3. y \in Nat /\ y > 0
  BY <1>1, <1>2
<1> HIDE DEF y
<1>4. y * LbasPerPage \in Nat \ {0}
  BY <1>1, <1>3
<1>5. MaxTransfer = y * LbasPerPage
  BY DEF MaxTransfer, y, x
<1> QED
  BY <1>1, <1>4, <1>5

LEMMA ProductNat == ASSUME NEW a \in Nat, NEW b \in Nat PROVE a * b \in Nat
OBVIOUS

PerPage == ListEntries - 1

LEMMA ListSizes ==
  /\ ListEntries \in Nat /\ PerPage \in Nat /\ ListEntries = PerPage + 1 /\ PerPage > 0
  /\ ListPages \in Nat /\ ListPages > 0 /\ Capacity \in Nat
<1>1. ListEntries \in Nat /\ ListPages \in Nat
  BY PrpAssumption
<1>2. Capacity \in Nat
  BY <1>1, ProductNat DEF Capacity
<1> QED
  BY <1>2, PrpAssumption DEF PerPage

LEMMA DriverInit == DiskInit => DriverInv
<1> SUFFICES ASSUME DiskInit PROVE DriverInv
  OBVIOUS
<1>1. 0 \in Slots
  BY NvmeAssumption DEF Slots
<1> QED
  BY <1>1 DEF DiskInit, NvmeOff, DriverInv, DriverTypeOK, InCall, NoCall

LEMMA DriverCall == ASSUME DriverInv, NvmeCall PROVE DriverInv'
<1> USE DEF DriverInv
<1>1. PICK b \in Buffers : call' = [off |-> b.off, nlb |-> b.nlb, done |-> 0]
  BY DEF NvmeCall
<1>2. b.off \in 0..LbasPerPage-1 /\ b.nlb \in Nat \ {0} /\ LbasPerPage \in Nat
  BY NvmeAssumption, PrpAssumption
<1>3. call' \in [off : Nat, nlb : Nat, done : Nat] /\ call'.done < call'.nlb
  BY <1>1, <1>2
<1>4. /\ pc' = "fill" /\ ret' = 0
      /\ UNCHANGED <<sq, sq_tail, cq_head, phase, db_tail, db_head, cmds, abandoned,
                     cq, dev_head, dev_tail, dev_phase>>
  BY DEF NvmeCall
<1>5. DriverTypeOK'
  BY <1>3, <1>4 DEF DriverTypeOK
<1> QED
  BY <1>3, <1>4, <1>5 DEF InCall

LEMMA DriverIoCmd == ASSUME DriverInv, IoCmd PROVE DriverInv'
<1> USE DEF DriverInv
<1> DEFINE left == call.nlb - call.done
           batch == IF left > MaxTransfer THEN MaxTransfer ELSE left
           addr == call.off + call.done
           c == [num |-> cmds + 1, lo |-> call.done, n |-> batch, addr |-> addr,
                 prp2 |-> Prp2(addr, batch)]
<1>1. /\ pc = "fill" /\ pc' = "prp" /\ cmds' = cmds + 1 /\ sq' = [sq EXCEPT ![sq_tail] = c]
      /\ UNCHANGED <<call, sq_tail, cq_head, phase, db_tail, db_head, ret, abandoned,
                     cq, dev_head, dev_tail, dev_phase>>
  BY DEF IoCmd, ctl
<1>2. /\ call.off \in Nat /\ call.nlb \in Nat /\ call.done \in Nat /\ call.done < call.nlb /\ ret = 0
      /\ cmds \in Nat /\ sq_tail \in Slots
  BY <1>1 DEF DriverTypeOK, InCall
<1>3. /\ batch \in Nat \ {0} /\ batch <= MaxTransfer /\ call.done + batch <= call.nlb
      /\ call.done + batch < call.nlb => batch = MaxTransfer
  BY <1>2, TransferSize
<1> HIDE DEF batch
<1>4. /\ c.num = cmds + 1 /\ c.lo = call.done /\ c.n = batch /\ c.addr = addr
      /\ c.prp2 = Prp2(addr, batch)
  OBVIOUS
<1>5. sq' = [i \in Slots |-> IF i = sq_tail THEN c ELSE sq[i]]
  BY <1>1 DEF DriverTypeOK
<1> HIDE DEF c
<1>6. sq'[sq_tail] = c
  BY <1>2, <1>5
<1>7. IsBatch(sq[sq_tail])'
  BY <1>1, <1>3, <1>4, <1>6 DEF IsBatch
<1>8. DriverTypeOK'
  <2>1. sq' = [i \in Slots |-> sq'[i]]
    BY <1>5
  <2>2. cmds' \in Nat
    BY <1>1, <1>2
  <2> QED
    BY <1>1, <2>1, <2>2 DEF DriverTypeOK
<1> QED
  BY <1>1, <1>2, <1>7, <1>8 DEF InCall

LEMMA DriverRing == ASSUME DriverInv, SetupPrp \/ Ring PROVE DriverInv'
<1> USE DEF DriverInv
<1>1. CASE SetupPrp
  BY <1>1 DEF SetupPrp, DriverTypeOK, InCall, IsBatch, Own, ctl
<1>2. CASE Ring
  <2>1. /\ pc = "prp" /\ pc' = "poll" /\ sq_tail' = Succ(sq_tail)
        /\ db_tail' \in {db_tail, Succ(sq_tail)}
        /\ UNCHANGED <<call, sq, cq_head, phase, db_head, cmds, ret, abandoned,
                       cq, dev_head, dev_tail, dev_phase>>
    BY <1>2 DEF Ring, ctl
  <2>2. sq_tail \in Slots /\ Succ(sq_tail) \in Slots
    BY SuccValue DEF DriverTypeOK
  <2>3. Own' = sq[sq_tail]
    BY <2>1, <2>2, SuccValue DEF Own
  <2>4. DriverTypeOK'
    BY <2>1, <2>2 DEF DriverTypeOK
  <2>5. IsBatch(Own)'
    BY <2>1, <2>3 DEF IsBatch
  <2> QED
    BY <2>1, <2>4, <2>5 DEF InCall
<1> QED
  BY <1>1, <1>2

\* A batch is done and another one follows, or the call returns.
LEMMA AfterStatus ==
  ASSUME DriverInv, pc = "poll", NEW ok \in BOOLEAN, StatusOf(ok)
  PROVE  LET done == call.done + Own.n IN
         \/ /\ ok /\ done < call.nlb /\ Own.n = MaxTransfer /\ pc' = "fill" /\ ret' = 0
            /\ call' = [call EXCEPT !.done = done] /\ call'.done = done
            /\ call'.nlb = call.nlb /\ call'.off = call.off
            /\ call' \in [off : Nat, nlb : Nat, done : Nat]
         \/ /\ ok /\ done = call.nlb /\ pc' = "idle" /\ call' = NoCall /\ ret' = done
         \/ /\ ~ok /\ pc' = "idle" /\ call' = NoCall /\ ret' = call.done
<1> DEFINE done == call.done + Own.n
<1>1. /\ call \in [off : Nat, nlb : Nat, done : Nat] /\ Own.n \in Nat /\ done <= call.nlb
      /\ done < call.nlb => Own.n = MaxTransfer
  BY DEF DriverInv, DriverTypeOK, IsBatch
<1>2. done \in Nat /\ call.nlb \in Nat
  BY <1>1
<1>3. CASE ok /\ done < call.nlb
  <2>1. pc' = "fill" /\ ret' = 0 /\ call' = [call EXCEPT !.done = done]
    BY <1>3 DEF StatusOf, Own
  <2> HIDE DEF done
  <2>2. /\ call'.done = done /\ call'.nlb = call.nlb /\ call'.off = call.off
        /\ call' \in [off : Nat, nlb : Nat, done : Nat]
    BY <1>1, <1>2, <2>1
  <2> QED
    BY <1>1, <1>3, <2>1, <2>2 DEF done
<1>4. CASE ok /\ ~(done < call.nlb)
  <2>1. pc' = "idle" /\ ret' = done /\ call' = NoCall
    BY <1>4 DEF StatusOf, Own
  <2> QED
    BY <1>1, <1>2, <1>4, <2>1
<1>5. CASE ~ok
  BY <1>5 DEF StatusOf
<1> QED
  BY <1>3, <1>4, <1>5

LEMMA DriverPoll == ASSUME DriverInv, PollHit \/ PollTimeout PROVE DriverInv'
<1> USE DEF DriverInv
<1>1. pc = "poll" /\ \E ok \in BOOLEAN : StatusOf(ok)
  <2>1. CASE PollHit
    <3>1. cq[cq_head].ok \in BOOLEAN
      BY DEF DriverTypeOK
    <3> QED
      BY <2>1, <3>1 DEF PollHit
  <2>2. CASE PollTimeout
    BY <2>2 DEF PollTimeout
  <2> QED
    BY <2>1, <2>2
<1>2. /\ call' = NoCall /\ pc' = "idle" /\ ret' \in Nat
      \/ /\ pc' = "fill" /\ call' \in [off : Nat, nlb : Nat, done : Nat]
         /\ call'.done < call'.nlb /\ ret' = 0
  <2>1. call.done \in Nat /\ call.done + Own.n \in Nat
    BY <1>1 DEF DriverTypeOK, IsBatch
  <2> QED
    BY <1>1, <2>1, AfterStatus
<1>3. /\ cq_head' \in Slots /\ phase' \in BOOLEAN /\ db_head' \in Slots /\ abandoned' \in Nat
      /\ UNCHANGED <<sq, sq_tail, db_tail, cmds, cq, dev_head, dev_tail, dev_phase>>
  <2>1. CASE PollHit
    BY <2>1, SuccValue DEF PollHit, CqTake, DriverTypeOK, ctl
  <2>2. CASE PollTimeout
    BY <2>2 DEF PollTimeout, DriverTypeOK, ctl
  <2> QED
    BY <2>1, <2>2
<1>4. NoCall \in [off : Nat, nlb : Nat, done : Nat]
  BY DEF NoCall
<1>5. DriverTypeOK'
  BY <1>2, <1>3, <1>4 DEF DriverTypeOK
<1> QED
  BY <1>2, <1>5 DEF InCall

LEMMA DriverStays ==
  ASSUME DriverInv, DriverTypeOK',
         UNCHANGED <<call, sq, sq_tail, cmds, ret>>, pc' = pc \/ (pc = "off" /\ pc' = "idle")
  PROVE  DriverInv'
  BY DEF DriverInv, InCall, IsBatch, Own

LEMMA DriverOther ==
  ASSUME DriverInv, NvmeInit \/ Controller \/ UNCHANGED nvmeVars PROVE DriverInv'
<1> USE DEF DriverInv
<1>1. CASE NvmeInit
  <2>1. DriverTypeOK'
    BY <1>1 DEF NvmeInit, DriverTypeOK, ctl
  <2> QED
    BY <1>1, <2>1, DriverStays DEF NvmeInit
<1>2. CASE Fetch
  <2>1. DriverTypeOK'
    BY <1>2, SuccValue DEF Fetch, DriverTypeOK, drv
  <2> QED
    BY <1>2, <2>1, DriverStays DEF Fetch, drv
<1>3. ASSUME NEW c \in working, Complete(c) PROVE DriverInv'
  <2>1. PICK ok \in BOOLEAN : cq' = [cq EXCEPT ![dev_tail] = [phase |-> dev_phase, ok |-> ok]]
    BY <1>3 DEF Complete
  <2>2. cq' \in [Slots -> [phase : BOOLEAN, ok : BOOLEAN]]
    BY <2>1 DEF DriverTypeOK
  <2>3. UNCHANGED <<drv, dev_head>> /\ dev_tail' = Succ(dev_tail) /\ dev_phase' \in BOOLEAN
    BY <1>3 DEF Complete, DriverTypeOK
  <2>4. DriverTypeOK'
    BY <2>2, <2>3, SuccValue DEF DriverTypeOK, drv
  <2> QED
    BY <2>3, <2>4, DriverStays DEF drv
<1>4. CASE UNCHANGED nvmeVars
  <2>1. DriverTypeOK'
    BY <1>4 DEF nvmeVars, DriverTypeOK, drv, ctl
  <2> QED
    BY <1>4, <2>1, DriverStays DEF nvmeVars, drv
<1> QED
  BY <1>1, <1>2, <1>3, <1>4 DEF Controller

\* What a step of the system is for the NVMe driver.
LEMMA NvmeSteps ==
  ASSUME [DiskNext]_vars
  PROVE  \/ NvmeCall \/ NvmeInit \/ IoCmd \/ SetupPrp \/ Ring \/ PollHit \/ PollTimeout
         \/ Controller \/ UNCHANGED nvmeVars
  BY DEF DiskNext, FsMount, FsMountReturn, FsUnmount, DiskInitialize, DiskCall, DirectCall,
         DriverStep, Driver, ControllerStep, vars

LEMMA DriverInvStep == ASSUME DriverInv, [DiskNext]_vars PROVE DriverInv'
  BY NvmeSteps, DriverCall, DriverIoCmd, DriverRing, DriverPoll, DriverOther

-----------------------------------------------------------------------------
(***************************************************************************)
(* Where the command under way is.  As long as no poll has given up there  *)
(* is one at most, and the two ends of each queue are at most one apart.   *)
(***************************************************************************)

\* The entries posted in this lap carry the controller's phase, the others the
\* phase of the lap before.
Phases == \A i \in Slots : cq[i].phase = (IF i < dev_tail THEN dev_phase ELSE ~dev_phase)

Level == dev_tail = cq_head /\ dev_phase = phase
Quiet == dev_head = sq_tail /\ working = {} /\ Level
Rung == Succ(dev_head) = sq_tail /\ working = {} /\ Level /\ moved = 0..call.done - 1
Fetched == dev_head = sq_tail /\ working = {Own} /\ Level /\ moved = 0..call.done - 1
Answered ==
  /\ dev_head = sq_tail /\ working = {}
  /\ dev_tail = Succ(cq_head) /\ dev_phase = (IF Succ(cq_head) = 0 THEN ~phase ELSE phase)
  /\ moved = 0..(IF cq[cq_head].ok THEN call.done + Own.n ELSE call.done) - 1

\* Its doorbell went astray.
Unheard == working = {} /\ Level /\ moved = 0..call.done - 1

QueueInv ==
  abandoned = 0 =>
    /\ Phases
    /\ pc # "poll" => Quiet /\ db_tail = sq_tail /\ moved = 0..call.done + ret - 1
    /\ pc = "poll" /\ ~Bar0Lost => db_tail = sq_tail /\ (Rung \/ Fetched \/ Answered)
    /\ pc = "poll" /\ Bar0Lost => dev_head = db_tail /\ Unheard
    /\ Bar0Lost => pc \in {"prp", "poll"}

LEMMA QueueInit == DiskInit => QueueInv
<1> SUFFICES ASSUME DiskInit PROVE QueueInv
  OBVIOUS
<1>1. \A i \in Slots : ~(i < 0)
  BY NvmeAssumption DEF Slots
<1>2. Phases
  BY <1>1 DEF DiskInit, NvmeOff, Phases
<1>3. Quiet
  BY DEF DiskInit, NvmeOff, Quiet, Level
<1>4. moved = 0..call.done + ret - 1
  BY DEF DiskInit, NvmeOff, NoCall
<1>5. ~Bar0Lost
  <2>1. Capacity \in ListMemory
    BY ListSizes DEF ListMemory
  <2> QED
    BY <2>1 DEF DiskInit, NvmeOff, BlankList, Bar0Lost
<1> QED
  BY <1>2, <1>3, <1>4, <1>5 DEF QueueInv, DiskInit, NvmeOff

LEMMA QueueFill ==
  ASSUME DriverInv, QueueInv, NvmeCall \/ NvmeInit \/ IoCmd \/ SetupPrp PROVE QueueInv'
<1> SUFFICES ASSUME abandoned' = 0 PROVE QueueInv'
  BY DEF QueueInv
<1>1. /\ pc # "poll" /\ pc' # "poll"
      /\ UNCHANGED <<abandoned, cq, cq_head, phase, sq_tail, db_tail, dev_head, working, dev_tail,
                     dev_phase>>
  BY DEF NvmeCall, NvmeInit, IoCmd, SetupPrp, ctl
<1>2. Phases' /\ Quiet' /\ db_tail' = sq_tail'
  BY <1>1 DEF QueueInv, Phases, Quiet, Level
<1>3. moved' = 0..call'.done + ret' - 1
  <2>1. CASE NvmeCall
    BY <2>1 DEF NvmeCall
  <2>2. CASE ~NvmeCall
    BY <1>1, <2>2 DEF QueueInv, NvmeInit, IoCmd, SetupPrp, ctl
  <2> QED
    BY <2>1, <2>2
<1>4. Bar0Lost' => pc' \in {"prp", "poll"}
  <2>1. CASE SetupPrp
    BY <2>1 DEF SetupPrp
  <2>2. CASE ~SetupPrp
    <3>1. prp_list' = prp_list /\ pc \in {"off", "idle", "fill"}
      BY <2>2 DEF NvmeCall, NvmeInit, IoCmd
    <3> QED
      BY <1>1, <3>1 DEF QueueInv, Bar0Lost
  <2> QED
    BY <2>1, <2>2
<1> QED
  BY <1>1, <1>2, <1>3, <1>4 DEF QueueInv

LEMMA QueueRing == ASSUME DriverInv, QueueInv, Ring PROVE QueueInv'
<1> SUFFICES ASSUME abandoned' = 0 PROVE QueueInv'
  BY DEF QueueInv
<1>1. /\ pc = "prp" /\ pc' = "poll" /\ sq_tail' = Succ(sq_tail)
      /\ db_tail' = (IF Bar0Lost THEN db_tail ELSE sq_tail') /\ Bar0Lost' = Bar0Lost
      /\ UNCHANGED <<abandoned, cq, cq_head, phase, call, dev_head, working, dev_tail, dev_phase, moved>>
  BY DEF Ring, ctl, Bar0Lost
<1>2. Phases /\ Quiet /\ db_tail = sq_tail /\ moved = 0..call.done + ret - 1
  BY <1>1 DEF QueueInv
<1>3. ret = 0 /\ call.done \in Nat
  BY <1>1 DEF DriverInv, DriverTypeOK, InCall
<1>4. moved = 0..call.done - 1
  BY <1>2, <1>3
<1>5. Phases' /\ Rung' /\ Unheard' /\ dev_head' = sq_tail
  BY <1>1, <1>2, <1>4 DEF Phases, Quiet, Rung, Unheard, Level
<1>6. CASE Bar0Lost
  BY <1>1, <1>2, <1>5, <1>6 DEF QueueInv
<1>7. CASE ~Bar0Lost
  BY <1>1, <1>5, <1>7 DEF QueueInv
<1> QED
  BY <1>6, <1>7

LEMMA QueuePoll == ASSUME DriverInv, QueueInv, PollHit PROVE QueueInv'
<1> SUFFICES ASSUME abandoned' = 0 PROVE QueueInv'
  BY DEF QueueInv
<1>1. /\ pc = "poll" /\ cq[cq_head].phase = phase /\ cq_head' = Succ(cq_head)
      /\ phase' = (IF Succ(cq_head) = 0 THEN ~phase ELSE phase)
      /\ StatusOf(cq[cq_head].ok) /\ Bar0Lost' = Bar0Lost
      /\ UNCHANGED <<abandoned, cq, sq_tail, db_tail, dev_head, working, dev_tail, dev_phase, moved>>
  BY DEF PollHit, CqTake, ctl, Bar0Lost
<1>2. /\ cq_head \in Slots /\ dev_tail \in Slots /\ phase \in BOOLEAN /\ dev_phase \in BOOLEAN
      /\ cq[cq_head].ok \in BOOLEAN
  BY DEF DriverInv, DriverTypeOK
<1>3. /\ Phases
      /\ ~Bar0Lost => db_tail = sq_tail /\ (Rung \/ Fetched \/ Answered)
      /\ Bar0Lost => Unheard
  BY <1>1 DEF QueueInv
<1>4. ~Level
  <2>1. ~(dev_tail < dev_tail)
    BY <1>2 DEF Slots
  <2>2. cq[dev_tail].phase = ~dev_phase
    BY <1>2, <1>3, <2>1 DEF Phases
  <2> QED
    BY <1>1, <1>2, <2>2 DEF Level
<1>5. Answered /\ db_tail = sq_tail /\ ~Bar0Lost
  BY <1>3, <1>4 DEF Rung, Fetched, Unheard
<1>6. Phases' /\ Quiet' /\ db_tail' = sq_tail' /\ ~Bar0Lost'
  BY <1>1, <1>3, <1>5 DEF Phases, Quiet, Answered, Level
<1>7. pc' # "poll" /\ moved' = 0..call'.done + ret' - 1
  <2> DEFINE ok == cq[cq_head].ok
             done == call.done + Own.n
  <2>1. moved' = 0..(IF ok THEN done ELSE call.done) - 1
    BY <1>1, <1>5 DEF Answered
  <2>2. ok \in BOOLEAN /\ call.done \in Nat /\ done \in Nat
    BY <1>1, <1>2 DEF DriverInv, DriverTypeOK, IsBatch
  <2>3. StatusOf(ok)
    BY <1>1
  <2> HIDE DEF ok
  <2>4. \/ ok /\ pc' = "fill" /\ ret' = 0 /\ call'.done = done
        \/ ok /\ pc' = "idle" /\ call' = NoCall /\ ret' = done
        \/ ~ok /\ pc' = "idle" /\ call' = NoCall /\ ret' = call.done
    BY <1>1, <2>2, <2>3, AfterStatus
  <2> HIDE DEF done
  <2>5. call'.done + ret' = IF ok THEN done ELSE call.done
    BY <2>2, <2>4 DEF NoCall
  <2> DEFINE a == IF ok THEN done ELSE call.done
             b == call'.done + ret'
  <2>6. moved' = 0..a - 1 /\ b = a
    BY <2>1, <2>5
  <2> HIDE DEF a, b
  <2>7. moved' = 0..b - 1
    BY <2>6
  <2>8. call'.done \in Nat /\ ret' \in Nat
    BY <2>2, <2>4 DEF NoCall
  <2>9. b - 1 = call'.done + ret' - 1
    BY <2>8 DEF b
  <2> QED
    BY <2>4, <2>7, <2>9
<1> QED
  BY <1>6, <1>7 DEF QueueInv

LEMMA QueueFetch == ASSUME DriverInv, QueueInv, Fetch PROVE QueueInv'
<1> SUFFICES ASSUME abandoned' = 0 PROVE QueueInv'
  BY DEF QueueInv
<1>1. /\ dev_head # db_tail /\ working' = working \cup {sq[dev_head]} /\ dev_head' = Succ(dev_head)
      /\ Bar0Lost' = Bar0Lost
      /\ UNCHANGED <<pc, abandoned, cq, cq_head, phase, sq, sq_tail, db_tail, call, ret, dev_tail,
                     dev_phase, moved>>
  BY DEF Fetch, drv, Bar0Lost
<1>2. pc = "poll" /\ Rung /\ Phases /\ db_tail = sq_tail /\ ~Bar0Lost
  BY <1>1 DEF QueueInv, Quiet, Fetched, Answered
<1>3. dev_head \in Slots
  BY DEF DriverInv, DriverTypeOK
<1>4. Own = sq[dev_head]
  BY <1>2, <1>3, SuccValue DEF Own, Rung
<1>5. Own' = Own
  BY <1>1 DEF Own
<1>6. Fetched' /\ Phases'
  BY <1>1, <1>2, <1>4, <1>5 DEF Rung, Fetched, Level, Phases
<1> QED
  BY <1>1, <1>2, <1>6 DEF QueueInv

LEMMA QueueComplete ==
  ASSUME DriverInv, QueueInv, NEW c \in working, Complete(c) PROVE QueueInv'
<1> SUFFICES ASSUME abandoned' = 0 PROVE QueueInv'
  BY DEF QueueInv
<1>1. PICK ok \in BOOLEAN :
        /\ cq' = [cq EXCEPT ![dev_tail] = [phase |-> dev_phase, ok |-> ok]]
        /\ moved' = IF ok /\ c.num = cmds /\ pc = "poll"
                    THEN moved \cup c.lo..c.lo + c.n - 1 ELSE moved
  BY DEF Complete
<1>2. /\ dev_tail' = Succ(dev_tail) /\ working' = working \ {c}
      /\ dev_phase' = (IF Succ(dev_tail) = 0 THEN ~dev_phase ELSE dev_phase)
      /\ Bar0Lost' = Bar0Lost
      /\ UNCHANGED <<pc, abandoned, cq_head, phase, sq, sq_tail, db_tail, call, ret, dev_head>>
  BY DEF Complete, drv, Bar0Lost
<1>3. pc = "poll" /\ Fetched /\ Phases /\ db_tail = sq_tail /\ ~Bar0Lost
  BY <1>2 DEF QueueInv, Quiet, Rung, Answered, Unheard
<1>4. c = Own /\ Own' = Own /\ working' = {}
  BY <1>2, <1>3 DEF Fetched, Own
<1>5. /\ cq \in [Slots -> [phase : BOOLEAN, ok : BOOLEAN]] /\ dev_tail \in Slots
      /\ dev_phase \in BOOLEAN /\ IsBatch(Own) /\ call.done \in Nat
  BY <1>3 DEF DriverInv, DriverTypeOK
<1>6. cq'[dev_tail].phase = dev_phase /\ cq'[dev_tail].ok = ok
  BY <1>1, <1>5
<1>7. \A i \in Slots : i # dev_tail => cq'[i] = cq[i]
  BY <1>1, <1>5
<1>8. Phases'
  <2> SUFFICES ASSUME NEW i \in Slots
               PROVE  cq'[i].phase = (IF i < dev_tail' THEN dev_phase' ELSE ~dev_phase')
    BY DEF Phases
  <2>1. cq'[i].phase = (IF i <= dev_tail THEN dev_phase ELSE ~dev_phase)
    <3>1. i \in Nat /\ dev_tail \in Nat
      BY <1>5, NvmeAssumption DEF Slots
    <3>2. CASE i = dev_tail
      BY <1>6, <3>1, <3>2
    <3>3. CASE i # dev_tail
      <4>1. cq'[i].phase = (IF i < dev_tail THEN dev_phase ELSE ~dev_phase)
        BY <1>3, <1>7, <3>3 DEF Phases
      <4> QED
        BY <3>1, <3>3, <4>1
    <3> QED
      BY <3>2, <3>3
  <2>2. CASE dev_tail = Depth - 1
    <3>1. dev_tail' = 0 /\ dev_phase' = ~dev_phase /\ i <= dev_tail /\ ~(i < 0)
      BY <1>2, <1>5, <2>2, SuccValue, NvmeAssumption DEF Slots
    <3> QED
      BY <1>5, <2>1, <3>1
  <2>3. CASE dev_tail # Depth - 1
    <3>1. Succ(dev_tail) = dev_tail + 1
      BY <1>5, <2>3, SuccValue
    <3>2. dev_tail + 1 # 0 /\ (i < dev_tail + 1 <=> i <= dev_tail)
      BY <1>5, NvmeAssumption DEF Slots
    <3> QED
      BY <1>2, <2>1, <3>1, <3>2
  <2> QED
    BY <2>2, <2>3
<1>9. moved' = 0..(IF ok THEN call.done + Own.n ELSE call.done) - 1
  <2>1. moved = 0..call.done - 1
    BY <1>3 DEF Fetched
  <2>2. Own.lo = call.done /\ Own.num = cmds /\ Own.n \in Nat /\ Own.n > 0
    BY <1>5 DEF IsBatch
  <2>3. CASE ok
    <3>1. moved' = (0..call.done - 1) \cup (call.done..call.done + Own.n - 1)
      BY <1>1, <1>3, <1>4, <2>1, <2>2, <2>3
    <3>2. (0..call.done - 1) \cup (call.done..call.done + Own.n - 1) = 0..call.done + Own.n - 1
      BY <1>5, <2>2
    <3> DEFINE a == call.done + Own.n
    <3>3. a - 1 = call.done + Own.n - 1
      BY <1>5, <2>2
    <3>4. moved' = 0..a - 1
      BY <3>1, <3>2, <3>3
    <3> HIDE DEF a
    <3>5. moved' = 0..(IF ok THEN a ELSE call.done) - 1
      BY <2>3, <3>4
    <3> QED
      BY <3>5 DEF a
  <2>4. CASE ~ok
    BY <1>1, <2>1, <2>4
  <2> QED
    BY <2>3, <2>4
<1>10. Answered'
  <2>1. dev_tail = cq_head /\ dev_phase = phase /\ dev_head = sq_tail
    BY <1>3 DEF Fetched, Level
  <2>2. cq'[cq_head'].ok = ok
    BY <1>2, <1>6, <2>1
  <2> QED
    BY <1>2, <1>4, <1>9, <2>1, <2>2 DEF Answered
<1> QED
  BY <1>2, <1>3, <1>8, <1>10 DEF QueueInv

LEMMA QueueStays == ASSUME QueueInv, UNCHANGED nvmeVars PROVE QueueInv'
  BY DEF QueueInv, Phases, Level, Quiet, Rung, Fetched, Answered, Unheard, Bar0Lost, Own, nvmeVars,
     drv, ctl

LEMMA QueueInvStep == ASSUME DriverInv, QueueInv, [DiskNext]_vars PROVE QueueInv'
<1>1. CASE PollTimeout
  <2>1. abandoned' # 0
    BY <1>1 DEF PollTimeout, DriverInv, DriverTypeOK
  <2> QED
    BY <2>1 DEF QueueInv
<1>2. CASE Controller
  BY <1>2, QueueFetch, QueueComplete DEF Controller
<1> QED
  BY <1>1, <1>2, NvmeSteps, QueueFill, QueueRing, QueuePoll, QueueStays

-----------------------------------------------------------------------------
(***************************************************************************)
(* What FatFs is told.                                                     *)
(***************************************************************************)

ResInv ==
  /\ want \in Nat
  /\ res = "busy" => InCall /\ want = call.nlb
  /\ res = "RES_OK" => pc = "idle" /\ ret = want
  /\ res = "RES_ERROR" => pc = "idle" /\ ret < want
  /\ InFatFs => fs_disk

LEMMA ResOther ==
  ASSUME ResInv, FsMount \/ FsMountReturn \/ FsUnmount \/ DiskInitialize PROVE ResInv'
  BY DEF ResInv, FsMount, FsMountReturn, FsUnmount, DiskInitialize, Forget, Busy, InFatFs, InCall,
         nvmeVars, drv

LEMMA ResCall == ASSUME DriverInv, ResInv, DiskCall \/ DirectCall PROVE ResInv'
<1>1. PICK b \in Buffers : call' = [off |-> b.off, nlb |-> b.nlb, done |-> 0]
  BY DEF DiskCall, DirectCall, NvmeCall
<1>2. call'.nlb \in Nat
  BY <1>1, NvmeAssumption
<1>3. pc' = "fill" /\ (InFatFs => fs_disk)' /\ want' \in Nat
  BY <1>2 DEF DiskCall, DirectCall, NvmeCall, Forget, ResInv, InFatFs
<1>4. (res' = "busy" /\ want' = call'.nlb) \/ res' = "none"
  BY DEF DiskCall, DirectCall, Forget
<1> QED
  BY <1>3, <1>4 DEF ResInv, InCall

LEMMA ResDriver == ASSUME DriverInv, ResInv, DriverStep PROVE ResInv'
<1>1. UNCHANGED <<fs_disk, volume, want>> /\ pc # "idle"
  BY DEF DriverStep, Driver, NvmeInit, IoCmd, SetupPrp, Ring, PollHit, PollTimeout
<1>2. res # "RES_OK" /\ res # "RES_ERROR" /\ want \in Nat
  BY <1>1 DEF ResInv
<1>3. (InFatFs => fs_disk)'
  BY <1>1 DEF ResInv, InFatFs
<1>4. CASE NvmeInit
  <2>1. res' = res /\ res # "busy"
    BY <1>4 DEF DriverStep, NvmeInit, Returns, ResInv, InCall
  <2> QED
    BY <1>1, <1>2, <1>3, <2>1 DEF ResInv
<1>5. CASE IoCmd \/ SetupPrp \/ Ring
  <2>1. res' = res /\ InCall' /\ call' = call
    BY <1>5 DEF DriverStep, IoCmd, SetupPrp, Ring, Returns, InCall
  <2> QED
    BY <1>1, <1>2, <1>3, <2>1 DEF ResInv
<1>6. CASE PollHit \/ PollTimeout
  <2>1. pc = "poll" /\ \E ok \in BOOLEAN : StatusOf(ok)
    <3>1. cq[cq_head].ok \in BOOLEAN
      BY DEF DriverInv, DriverTypeOK
    <3> QED
      BY <1>6, <3>1 DEF PollHit, PollTimeout
  <2>2. /\ call.done \in Nat /\ call.nlb \in Nat /\ Own.n \in Nat /\ Own.n > 0
        /\ call.done < call.nlb
    BY <2>1 DEF DriverInv, DriverTypeOK, IsBatch, InCall
  <2>3. \/ pc' = "fill" /\ call'.nlb = call.nlb
        \/ pc' = "idle" /\ (ret' = call.nlb \/ ret' = call.done)
    BY <2>1, AfterStatus
  <2>4. CASE pc' = "fill"
    <3>1. res' = res
      BY <2>4 DEF DriverStep, Returns
    <3> QED
      BY <1>1, <1>2, <1>3, <2>3, <2>4, <3>1 DEF ResInv, InCall
  <2>5. CASE pc' = "idle"
    <3>1. res' = IF res = "busy" THEN DiskResult(ret') ELSE res
      BY <2>1, <2>5 DEF DriverStep, Returns, Busy
    <3>2. CASE res = "busy"
      <4>1. want = call.nlb
        BY <3>2 DEF ResInv
      <4>2. (res' = "RES_OK" /\ ret' = want) \/ (res' = "RES_ERROR" /\ ret' < want)
        BY <2>2, <2>3, <2>5, <3>1, <3>2, <4>1 DEF DiskResult
      <4> QED
        BY <1>1, <1>2, <1>3, <2>5, <4>2 DEF ResInv
    <3>3. CASE res # "busy"
      BY <1>1, <1>2, <1>3, <3>1, <3>3 DEF ResInv
    <3> QED
      BY <3>2, <3>3
  <2> QED
    BY <2>3, <2>4, <2>5
<1> QED
  BY <1>4, <1>5, <1>6 DEF DriverStep, Driver

LEMMA ResInvStep == ASSUME DriverInv, ResInv, [DiskNext]_vars PROVE ResInv'
<1>1. CASE ControllerStep \/ UNCHANGED vars
  <2>1. UNCHANGED <<pc, call, ret, diskVars>>
    BY <1>1 DEF ControllerStep, Controller, Fetch, Complete, drv, vars, nvmeVars
  <2> QED
    BY <2>1 DEF ResInv, InCall, InFatFs, diskVars
<1> QED
  BY <1>1, ResOther, ResCall, ResDriver DEF DiskNext

LEMMA ReportedFromInv == ASSUME DriverInv, QueueInv, ResInv PROVE SectorsAsReported
<1>1. /\ call.done \in Nat /\ ret \in Nat /\ want \in Nat
  BY DEF DriverInv, DriverTypeOK, ResInv
<1>2. ASSUME abandoned = 0, pc # "poll"
      PROVE  /\ DoneIsTransferred
             /\ res = "RES_OK" => 0..want - 1 \subseteq moved
             /\ res = "RES_ERROR" => ~(0..want - 1 \subseteq moved)
  <2>1. moved = 0..call.done + ret - 1
    BY <1>2 DEF QueueInv
  <2>2. ASSUME pc = "idle" PROVE moved = 0..ret - 1
    <3>1. call.done = 0
      BY <2>2 DEF DriverInv, InCall, NoCall
    <3>2. call.done + ret - 1 = ret - 1
      BY <1>1, <3>1
    <3> QED
      BY <2>1, <3>2
  <2>3. ASSUME res = "RES_ERROR" PROVE ~(0..want - 1 \subseteq moved)
    <3>1. ret < want /\ moved = 0..ret - 1
      BY <2>2, <2>3 DEF ResInv
    <3>2. ret \in 0..want - 1 /\ ret \notin 0..ret - 1
      BY <1>1, <3>1
    <3> QED
      BY <3>1, <3>2
  <2> QED
    BY <2>1, <2>2, <2>3 DEF DoneIsTransferred, ResInv
<1>3. ASSUME abandoned = 0, pc = "poll"
      PROVE  DoneIsTransferred /\ res # "RES_OK" /\ res # "RES_ERROR"
  <2>1. res # "RES_OK" /\ res # "RES_ERROR" /\ ret = 0 /\ Own.n \in Nat
    BY <1>3 DEF ResInv, DriverInv, InCall, IsBatch
  <2>2. 0..call.done - 1 \subseteq moved
    <3>1. moved = 0..call.done - 1 \/ Answered
      BY <1>3 DEF QueueInv, Rung, Fetched, Unheard
    <3>2. ASSUME Answered PROVE 0..call.done - 1 \subseteq moved
      <4>1. moved = 0..call.done + Own.n - 1 \/ moved = 0..call.done - 1
        <5>1. (call.done + Own.n) - 1 = call.done + Own.n - 1
          BY <1>1, <2>1
        <5> QED
          BY <3>2, <5>1 DEF Answered
      <4> QED
        BY <1>1, <2>1, <4>1
    <3> QED
      BY <3>1, <3>2
  <2>3. call.done + ret - 1 = call.done - 1
    BY <1>1, <2>1
  <2> QED
    BY <2>1, <2>2, <2>3 DEF DoneIsTransferred
<1> QED
  BY <1>2, <1>3 DEF SectorsAsReported, ResInv

\* What the driver and the block layer say of a transfer is what happened to it:
\* nvme_read and nvme_write count no block the controller has not moved, and
\* disk_read and disk_write return RES_OK when all the sectors were moved and
\* RES_ERROR when some were not, over any number of batches and laps of the two
\* queues, until submit_and_wait has given up a poll.
THEOREM SectorsAsReportedHolds == DiskSpec => []SectorsAsReported
<1> DEFINE Inv == DriverInv /\ QueueInv /\ ResInv
<1>1. DiskInit => Inv
  BY DriverInit, QueueInit DEF DiskInit, NvmeOff, ResInv, InFatFs
<1>2. Inv /\ [DiskNext]_vars => Inv'
  BY DriverInvStep, QueueInvStep, ResInvStep
<1>3. Inv => SectorsAsReported
  BY ReportedFromInv
<1> QED
  BY <1>1, <1>2, <1>3, PTL DEF DiskSpec

-----------------------------------------------------------------------------
(***************************************************************************)
(* setup_prp.  A list page holds PerPage data entries and a chain pointer, *)
(* the last one ListEntries data entries.                                  *)
(***************************************************************************)

LEMMA DivMod ==
  ASSUME NEW x \in Nat, NEW Q \in Nat, Q > 0
  PROVE  x \div Q \in Nat /\ x % Q \in 0..Q-1 /\ x = (x \div Q) * Q + (x % Q)
OBVIOUS

LEMMA DivUnique ==
  ASSUME NEW q \in Nat, NEW Q \in Nat, Q > 0, NEW r \in 0..Q-1
  PROVE  (q * Q + r) \div Q = q /\ (q * Q + r) % Q = r
OBVIOUS

\* A position in an earlier list page comes before all those of a later one.
LEMMA EarlierPage ==
  ASSUME NEW q \in Nat, NEW k \in Nat, q < k, NEW E \in Nat
  PROVE  q * E + E <= k * E
<1>1. PICK d \in Nat : k = q + 1 + d
  <2>1. k - q - 1 \in Nat /\ k = q + 1 + (k - q - 1)
    OBVIOUS
  <2> QED
    BY <2>1
<1>2. k * E = q * E + E + d * E
  BY <1>1
<1> QED
  BY <1>2, ProductNat

\* Where the pages of a transfer are: it starts `at` blocks into page `first`
\* and reaches `more` pages further.
LEMMA PageNumbers ==
  ASSUME NEW addr \in Nat, NEW size \in Nat, size > 0
  PROVE  LET first == addr \div LbasPerPage
             at    == addr % LbasPerPage
             more  == (at + size - 1) \div LbasPerPage
         IN /\ first \in Nat /\ more \in Nat /\ PageOf(addr) = first
            /\ PageOf(addr + size - 1) = first + more
            /\ PageOf(addr + FirstChunk(addr)) = first + 1
            /\ EntriesNeeded(addr, size) = more
            /\ size <= FirstChunk(addr) <=> more = 0
            /\ size <= FirstChunk(addr) + LbasPerPage <=> more <= 1
<1> DEFINE L == LbasPerPage
           first == addr \div L
           at == addr % L
           x == at + size - 1
           more == x \div L
           rest == x % L
<1>1. L \in Nat /\ L > 0
  BY PrpAssumption
<1> HIDE DEF L
<1>2. first \in Nat /\ at \in 0..L-1 /\ addr = first * L + at
  BY <1>1, DivMod
<1> HIDE DEF first, at
<1>3. x \in Nat
  BY <1>1, <1>2
<1> HIDE DEF x
<1>4. more \in Nat /\ rest \in 0..L-1 /\ x = more * L + rest
  BY <1>1, <1>3, DivMod
<1> HIDE DEF more, rest
<1>5. FirstChunk(addr) = L - at
  BY DEF FirstChunk, L, at
<1>6. PageOf(addr + size - 1) = first + more
  <2>1. addr + size - 1 = first * L + x
    BY <1>1, <1>2, ProductNat DEF x
  <2>2. (first + more) * L = first * L + more * L
    BY <1>1, <1>2, <1>4
  <2>3. addr + size - 1 = (first + more) * L + rest
    BY <1>1, <1>2, <1>4, <2>1, <2>2, ProductNat
  <2>4. first + more \in Nat
    BY <1>2, <1>4
  <2>5. ((first + more) * L + rest) \div L = first + more
    BY <1>1, <1>4, <2>4, DivUnique
  <2> QED
    BY <2>3, <2>5 DEF PageOf, L
<1>7. PageOf(addr + FirstChunk(addr)) = first + 1
  <2>1. (first + 1) * L = first * L + L
    BY <1>1, <1>2
  <2>2. addr + FirstChunk(addr) = (first + 1) * L + 0
    BY <1>1, <1>2, <1>5, <2>1, ProductNat
  <2>3. first + 1 \in Nat /\ 0 \in 0..L-1
    BY <1>1, <1>2
  <2>4. ((first + 1) * L + 0) \div L = first + 1
    BY <1>1, <2>3, DivUnique
  <2> QED
    BY <2>2, <2>4 DEF PageOf, L
<1>8. EntriesNeeded(addr, size) = more
  <2>1. size - FirstChunk(addr) + L - 1 = x
    BY <1>1, <1>2, <1>5 DEF x
  <2> QED
    BY <2>1 DEF EntriesNeeded, L, more
<1>9. size <= FirstChunk(addr) <=> more = 0
  <2>1. size <= FirstChunk(addr) <=> x < L
    BY <1>1, <1>2, <1>5 DEF x
  <2>2. ASSUME more = 0 PROVE x < L
    BY <1>1, <1>4, <2>2
  <2>3. ASSUME more # 0 PROVE ~(x < L)
    <3>1. 0 * L + L <= more * L
      BY <1>1, <1>4, <2>3, EarlierPage
    <3> QED
      BY <1>1, <1>4, <3>1, ProductNat
  <2> QED
    BY <2>1, <2>2, <2>3
<1>10. size <= FirstChunk(addr) + LbasPerPage <=> more <= 1
  <2>1. size <= FirstChunk(addr) + LbasPerPage <=> x < 2 * L
    BY <1>1, <1>2, <1>5 DEF x, L
  <2>2. ASSUME more <= 1 PROVE x < 2 * L
    <3>1. more = 0 \/ more = 1
      BY <1>4, <2>2
    <3> QED
      BY <1>1, <1>4, <3>1
  <2>3. ASSUME ~(more <= 1) PROVE ~(x < 2 * L)
    <3>1. 1 * L + L <= more * L
      BY <1>1, <1>4, <2>3, EarlierPage
    <3> QED
      BY <1>1, <1>4, <3>1, ProductNat
  <2> QED
    BY <2>1, <2>2, <2>3
<1>11. PageOf(addr) = first
  BY DEF PageOf, first, L
<1> QED
  BY <1>2, <1>4, <1>6, <1>7, <1>8, <1>9, <1>10, <1>11 DEF first, at, x, more, L

\* setup_prp's loop has filled k list pages and r entries of the next one.
LoopAt(st, list, k, r) ==
  /\ st.pos = k * ListEntries + r /\ st.i = k * PerPage + r
  /\ st.i <= st.needed /\ r <= ListEntries /\ (st.i < st.needed => r <= PerPage)
  /\ k = 0 \/ k * PerPage + 1 < st.needed
  /\ \A q, s \in Nat : (q < k /\ s < PerPage) \/ (q = k /\ s < r) =>
       list[q * ListEntries + s] = Data(st.base + (q * PerPage + s))
  /\ \A q \in Nat : q < k => list[q * ListEntries + PerPage] = Chain(q + 1)

PrpState == [pos : Nat, i : Nat, base : Nat, needed : Nat]

LEMMA LoopStep ==
  ASSUME NEW st \in PrpState, NEW list, list = [p \in ListMemory |-> list[p]],
         NEW k \in Nat, NEW r \in Nat, LoopAt(st, list, k, r),
         st.i < st.needed, st.pos \in ListMemory
  PROVE  \E k2, r2 \in Nat :
           LoopAt(PrpAdvance(st), [list EXCEPT ![st.pos] = PrpEntry(st)], k2, r2)
<1> DEFINE E == ListEntries
           K == PerPage
           list2 == [list EXCEPT ![st.pos] = PrpEntry(st)]
           st2 == PrpAdvance(st)
<1>1. E \in Nat /\ K \in Nat /\ E = K + 1 /\ K > 0
  BY ListSizes
<1>2. /\ st.pos = k * E + r /\ st.i = k * K + r /\ st.i <= st.needed
      /\ k = 0 \/ k * K + 1 < st.needed
  BY DEF LoopAt
<1>r. r <= K
  BY DEF LoopAt
<1>3. /\ \A q, s \in Nat : (q < k /\ s < K) \/ (q = k /\ s < r) =>
           list[q * E + s] = Data(st.base + (q * K + s))
      /\ \A q \in Nat : q < k => list[q * E + K] = Chain(q + 1)
  BY DEF LoopAt
<1>4. st.pos \in Nat /\ st.i \in Nat /\ st.base \in Nat /\ st.needed \in Nat
  BY DEF PrpState
<1>5. /\ st2.base = st.base /\ st2.needed = st.needed /\ st2.pos = st.pos + 1
      /\ st2.i = IF PrpIsChain(st) THEN st.i ELSE st.i + 1
  BY <1>4 DEF PrpAdvance, PrpState
<1>6. list2[st.pos] = PrpEntry(st)
  OBVIOUS
<1>7. \A p \in Nat : p < st.pos => list2[p] = list[p]
  <2>1. ASSUME NEW p \in Nat, p < st.pos PROVE p \in ListMemory /\ p # st.pos
    BY <1>4, <2>1, ListSizes DEF ListMemory
  <2> QED
    BY <2>1
<1>8. \A q, s \in Nat : (q < k /\ s <= K) \/ (q = k /\ s < r) =>
        q * E + s \in Nat /\ q * E + s < st.pos
  <2> SUFFICES ASSUME NEW q \in Nat, NEW s \in Nat, (q < k /\ s <= K) \/ (q = k /\ s < r)
               PROVE  q * E + s \in Nat /\ q * E + s < st.pos
    OBVIOUS
  <2>1. q * E \in Nat /\ k * E \in Nat
    BY <1>1, ProductNat
  <2>2. CASE q = k /\ s < r
    BY <1>2, <2>1, <2>2
  <2>3. CASE q < k /\ s <= K
    <3>1. q * E + E <= k * E
      BY <1>1, <2>3, EarlierPage
    <3> QED
      BY <1>1, <1>2, <2>1, <2>3, <3>1
  <2> QED
    BY <2>2, <2>3
<1>9. PrpIsChain(st) <=> r = K /\ st.i + 1 < st.needed
  <2>1. r \in 0..E-1 /\ E > 0
    BY <1>r, <1>1
  <2>2. (k * E + r) % E = r
    BY <1>1, <2>1, DivUnique
  <2> QED
    BY <1>1, <1>2, <2>2 DEF PrpIsChain, PerPage
<1> HIDE DEF list2, st2, E, K
<1>10. \A q, s \in Nat : (q < k /\ s < K) \/ (q = k /\ s < r) =>
         list2[q * E + s] = Data(st2.base + (q * K + s))
  <2> SUFFICES ASSUME NEW q \in Nat, NEW s \in Nat, (q < k /\ s < K) \/ (q = k /\ s < r)
               PROVE  list2[q * E + s] = Data(st2.base + (q * K + s))
    OBVIOUS
  <2>1. (q < k /\ s <= K) \/ (q = k /\ s < r)
    BY <1>1
  <2>2. list2[q * E + s] = list[q * E + s]
    BY <1>7, <1>8, <2>1
  <2> QED
    BY <1>3, <1>5, <2>2
<1>11. \A q \in Nat : q < k => list2[q * E + K] = Chain(q + 1)
  <2> SUFFICES ASSUME NEW q \in Nat, q < k PROVE list2[q * E + K] = Chain(q + 1)
    OBVIOUS
  <2>1. K \in Nat /\ K <= K
    BY <1>1
  <2>2. q * E + K \in Nat /\ q * E + K < st.pos
    BY <1>8, <2>1
  <2>3. list2[q * E + K] = list[q * E + K]
    BY <1>7, <2>2
  <2> QED
    BY <1>3, <2>3
<1>12. CASE PrpIsChain(st)
  <2>1. r = K /\ st.i + 1 < st.needed
    BY <1>9, <1>12
  <2>2. (k + 1) * E = k * E + E /\ (k + 1) * K = k * K + K /\ k * E \in Nat /\ k * K \in Nat
    BY <1>1, ProductNat
  <2>3. st2.pos = (k + 1) * E + 0 /\ st2.i = (k + 1) * K + 0
    <3>1. st.pos = k * E + K /\ st.i = k * K + K /\ st2.pos = st.pos + 1 /\ st2.i = st.i
      BY <1>2, <1>5, <1>12, <2>1
    <3> QED
      BY <1>1, <2>2, <3>1
  <2>4. (k + 1) * K + 1 < st2.needed
    BY <1>1, <1>2, <1>5, <2>1, <2>2
  <2>5. list2[k * E + K] = Chain(k + 1)
    <3>1. st.pos + 1 = (k + 1) * E + 0
      BY <1>5, <2>3
    <3>2. k + 1 \in Nat /\ 0 \in 0..E-1 /\ E > 0
      BY <1>1
    <3>3. ((k + 1) * E + 0) \div E = k + 1
      BY <1>1, <3>2, DivUnique
    <3>4. PrpEntry(st) = Chain(k + 1)
      BY <1>12, <3>1, <3>3 DEF PrpEntry, E
    <3> QED
      BY <1>2, <1>6, <2>1, <3>4
  <2>6. ASSUME NEW q \in Nat, NEW s \in Nat, (q < k + 1 /\ s < K) \/ (q = k + 1 /\ s < 0)
        PROVE  list2[q * E + s] = Data(st2.base + (q * K + s))
    <3>1. (q < k /\ s < K) \/ (q = k /\ s < r)
      BY <2>1, <2>6
    <3> QED
      BY <1>10, <3>1
  <2>7. ASSUME NEW q \in Nat, q < k + 1 PROVE list2[q * E + K] = Chain(q + 1)
    <3>1. q < k \/ q = k
      BY <2>7
    <3> QED
      BY <1>11, <2>5, <3>1
  <2>8. st2.i <= st2.needed /\ 0 <= E /\ 0 <= K
    BY <1>1, <1>2, <1>4, <1>5, <1>12
  <2>9. LoopAt(st2, list2, k + 1, 0)
    BY <2>3, <2>4, <2>6, <2>7, <2>8 DEF LoopAt, E, K
  <2> QED
    BY <2>9 DEF st2, list2
<1>13. CASE ~PrpIsChain(st)
  <2>1. k * E \in Nat /\ k * K \in Nat
    BY <1>1, ProductNat
  <2>2. st2.pos = k * E + (r + 1) /\ st2.i = k * K + (r + 1)
    BY <1>2, <1>4, <1>5, <1>13, <2>1
  <2>3. list2[k * E + r] = Data(st2.base + (k * K + r))
    <3>1. PrpEntry(st) = Data(st.base + st.i)
      BY <1>13 DEF PrpEntry
    <3> QED
      BY <1>2, <1>5, <1>6, <3>1
  <2>4. ASSUME NEW q \in Nat, NEW s \in Nat, (q < k /\ s < K) \/ (q = k /\ s < r + 1)
        PROVE  list2[q * E + s] = Data(st2.base + (q * K + s))
    <3>1. (q < k /\ s < K) \/ (q = k /\ s < r) \/ (q = k /\ s = r)
      BY <2>4
    <3> QED
      BY <1>10, <2>3, <3>1
  <2>5. st2.i <= st2.needed /\ r + 1 <= E /\ (st2.i < st2.needed => r + 1 <= K)
    <3>1. st2.i = st.i + 1 /\ st2.needed = st.needed /\ ~(r = K /\ st.i + 1 < st.needed)
      BY <1>5, <1>9, <1>13
    <3> QED
      BY <1>r, <1>1, <1>4, <3>1
  <2>6. k = 0 \/ k * K + 1 < st2.needed
    BY <1>2, <1>5
  <2>7. LoopAt(st2, list2, k, r + 1)
    BY <1>11, <2>2, <2>4, <2>5, <2>6 DEF LoopAt, E, K
  <2>8. r + 1 \in Nat
    OBVIOUS
  <2> QED
    BY <2>7, <2>8 DEF st2, list2
<1> QED
  BY <1>12, <1>13

\* The controller finds the entries where the finished loop has put them.
LEMMA LoopDone ==
  ASSUME NEW st \in PrpState, NEW list, NEW k \in Nat, NEW r \in Nat, LoopAt(st, list, k, r),
         st.i >= st.needed
  PROVE  /\ \A i \in 0..st.needed - 1 : list[EntryAt(i, st.needed)] = Data(st.base + i)
         /\ \A l \in 0..ListPagesFor(st.needed) - 2 :
              list[l * ListEntries + ListEntries - 1] = Chain(l + 1)
<1> DEFINE E == ListEntries
           K == PerPage
           n == st.needed
<1>1. E \in Nat /\ K \in Nat /\ E = K + 1 /\ K > 0 /\ K = ListEntries - 1
  BY ListSizes DEF PerPage
<1>2. st.i = k * K + r /\ (k = 0 \/ k * K + 1 < n)
  BY DEF LoopAt
<1>3. st.i \in Nat /\ n \in Nat /\ st.base \in Nat /\ st.i <= n /\ r <= E
  BY DEF LoopAt, PrpState
<1>4. n = k * K + r /\ k * K \in Nat
  <2>1. n = st.i
    BY <1>3
  <2> QED
    BY <1>1, <1>2, <2>1, ProductNat
<1>5. /\ \A q, s \in Nat : (q < k /\ s < K) \/ (q = k /\ s < r) =>
           list[q * E + s] = Data(st.base + (q * K + s))
      /\ \A q \in Nat : q < k => list[q * E + K] = Chain(q + 1)
  BY DEF LoopAt
<1> HIDE DEF E, K, n
<1>6. ListPagesFor(n) = k + 1
  <2>1. CASE k = 0
    <3>1. n <= E
      BY <1>1, <1>3, <1>4, <2>1
    <3> QED
      BY <2>1, <3>1 DEF ListPagesFor, E
  <2>2. CASE k # 0
    <3>1. 0 * K + K <= k * K
      BY <1>1, <2>2, EarlierPage
    <3>2. r - 2 \in 0..K-1 /\ n - 2 = k * K + (r - 2) /\ ~(n <= E)
      BY <1>1, <1>2, <1>3, <1>4, <2>2, <3>1
    <3>3. (k * K + (r - 2)) \div K = k
      BY <1>1, <3>2, DivUnique
    <3>4. (n - 2) \div (ListEntries - 1) = k
      BY <1>1, <3>2, <3>3
    <3> QED
      BY <3>2, <3>4 DEF ListPagesFor, E
  <2> QED
    BY <2>1, <2>2
<1>7. ASSUME NEW i \in 0..n - 1 PROVE list[EntryAt(i, n)] = Data(st.base + i)
  <2> DEFINE q == i \div K
             s == i % K
             page == IF q > k THEN k ELSE q
  <2>1. i \in Nat /\ i < n
    BY <1>3, <1>7
  <2>2. q \in Nat /\ s \in 0..K-1 /\ i = q * K + s
    BY <1>1, <2>1, DivMod
  <2>3. EntryAt(i, n) = page * E + (i - page * K)
    <3>1. k + 1 - 1 = k
      OBVIOUS
    <3> QED
      BY <1>1, <1>6, <3>1 DEF EntryAt, E
  <2> HIDE DEF q, s
  <2>4. CASE q > k
    <3>1. k * K + K <= q * K
      BY <1>1, <2>2, <2>4, EarlierPage
    <3> DEFINE t == i - k * K
    <3>2. t \in Nat /\ t < r /\ k * K + t = i
      BY <1>1, <1>4, <2>1, <2>2, <3>1, ProductNat
    <3>3. EntryAt(i, n) = k * E + t
      BY <2>3, <2>4
    <3> HIDE DEF t
    <3>4. list[k * E + t] = Data(st.base + (k * K + t))
      BY <1>5, <3>2
    <3> QED
      BY <3>2, <3>3, <3>4
  <2>5. CASE ~(q > k)
    <3>1. q * K \in Nat /\ i - q * K = s
      BY <1>1, <2>2, ProductNat
    <3>2. EntryAt(i, n) = q * E + s
      BY <2>3, <2>5, <3>1
    <3>3. s \in Nat /\ ((q < k /\ s < K) \/ (q = k /\ s < r))
      <4>1. q < k \/ q = k
        BY <2>2, <2>5
      <4>2. CASE q < k
        BY <1>1, <2>2, <4>2
      <4>3. CASE q = k
        <5>1. k * K + s < k * K + r
          BY <1>4, <2>1, <2>2, <4>3
        <5> QED
          BY <1>1, <1>4, <2>2, <4>3, <5>1
      <4> QED
        BY <4>1, <4>2, <4>3
    <3>4. list[q * E + s] = Data(st.base + (q * K + s))
      BY <1>5, <2>2, <3>3
    <3> QED
      BY <2>2, <3>2, <3>4
  <2> QED
    BY <2>4, <2>5
<1>8. ASSUME NEW l \in 0..ListPagesFor(n) - 2
      PROVE  list[l * ListEntries + ListEntries - 1] = Chain(l + 1)
  <2>1. l \in Nat /\ l < k
    BY <1>6, <1>8
  <2>2. l * E \in Nat
    BY <1>1, <2>1, ProductNat
  <2>3. l * E + E - 1 = l * E + K
    BY <1>1, <2>2
  <2>4. list[l * E + E - 1] = Chain(l + 1)
    BY <1>5, <2>1, <2>3
  <2> QED
    BY <2>4 DEF E
<1> QED
  BY <1>7, <1>8 DEF n

\* PRP2 and the loop's start, by the number of pages after the first one.
Further(addr, size) == ((addr % LbasPerPage) + size - 1) \div LbasPerPage

LEMMA Prp2Cases ==
  ASSUME NEW addr \in Nat, NEW size \in Nat, size > 0
  PROVE  LET more == Further(addr, size) IN
         /\ more \in Nat
         /\ more = 0 => Prp2(addr, size) = NoEntry
         /\ more = 1 => Prp2(addr, size) = Data(PageOf(addr) + 1)
         /\ more > 1 => Prp2(addr, size) = Chain(0)
<1> DEFINE more == Further(addr, size)
           a == size <= FirstChunk(addr)
           b == size > FirstChunk(addr) /\ size <= FirstChunk(addr) + LbasPerPage
<1>1. /\ more \in Nat /\ (a <=> more = 0) /\ (size <= FirstChunk(addr) + LbasPerPage <=> more <= 1)
      /\ PageOf(addr + FirstChunk(addr)) = PageOf(addr) + 1
  BY PageNumbers DEF Further
<1>2. size > FirstChunk(addr) <=> ~a
  <2>1. addr % LbasPerPage \in 0..LbasPerPage-1 /\ LbasPerPage \in Nat
    BY PrpAssumption, DivMod
  <2>2. FirstChunk(addr) \in Nat
    BY <2>1 DEF FirstChunk
  <2> QED
    BY <2>2
<1>3. b <=> more = 1
  BY <1>1, <1>2
<1>4. Prp2(addr, size) = CASE a -> NoEntry
                           [] b -> Data(PageOf(addr + FirstChunk(addr)))
                           [] OTHER -> Chain(0)
  BY Zenon DEF Prp2
<1>5. more > 1 => ~a /\ ~b
  BY <1>1, <1>3
<1>6. more = 0 => a /\ ~b
  BY <1>1, <1>3
<1>7. more = 1 => b /\ ~a
  BY <1>1, <1>3
<1> HIDE DEF a, b, more
<1>8. more = 0 => Prp2(addr, size) = NoEntry
  BY <1>4, <1>6, Zenon
<1>9. more = 1 => Prp2(addr, size) = Data(PageOf(addr) + 1)
  BY <1>1, <1>4, <1>7, Zenon
<1>10. more > 1 => Prp2(addr, size) = Chain(0)
  BY <1>4, <1>5, Zenon
<1> QED
  BY <1>1, <1>8, <1>9, <1>10 DEF more

LEMMA PrpStartValue ==
  ASSUME NEW addr \in Nat, NEW size \in Nat, size > 0
  PROVE  LET st == PrpStart(addr, size)
             more == Further(addr, size)
         IN /\ st \in PrpState /\ st.pos = 0 /\ st.i = 0 /\ st.base = PageOf(addr) + 1
            /\ st.needed = (IF more > 1 THEN more ELSE 0)
<1> DEFINE more == Further(addr, size)
           need == IF Prp2(addr, size).kind = "chain" THEN EntriesNeeded(addr, size) ELSE 0
<1>1. /\ more \in Nat /\ EntriesNeeded(addr, size) = more /\ PageOf(addr) \in Nat
      /\ PageOf(addr + FirstChunk(addr)) = PageOf(addr) + 1
  BY PageNumbers DEF Further
<1>2. /\ more = 0 => Prp2(addr, size) = NoEntry
      /\ more = 1 => Prp2(addr, size) = Data(PageOf(addr) + 1)
      /\ more > 1 => Prp2(addr, size) = Chain(0)
  BY Prp2Cases
<1> HIDE DEF more
<1>3. Prp2(addr, size).kind = "chain" <=> more > 1
  <2>1. CASE more = 0
    BY <1>2, <2>1 DEF NoEntry
  <2>2. CASE more = 1
    BY <1>2, <2>2 DEF Data
  <2>3. CASE more > 1
    BY <1>2, <2>3 DEF Chain
  <2> QED
    BY <1>1, <2>1, <2>2, <2>3
<1>4. need = (IF more > 1 THEN more ELSE 0) /\ need \in Nat
  BY <1>1, <1>3
<1>5. PrpStart(addr, size) = [pos |-> 0, i |-> 0, base |-> PageOf(addr) + 1, needed |-> need]
  BY <1>1 DEF PrpStart
<1> HIDE DEF need
<1> QED
  BY <1>1, <1>4, <1>5 DEF PrpState, more

LEMMA LastPage ==
  ASSUME NEW addr \in Nat, NEW size \in Nat, size > 0
  PROVE  /\ Further(addr, size) \in Nat /\ PageOf(addr) \in Nat
         /\ PageOf(addr + size - 1) = PageOf(addr) + Further(addr, size)
<1>1. Further(addr, size) \in Nat /\ PageOf(addr) \in Nat
  BY PageNumbers DEF Further
<1> DEFINE last == PageOf(addr + size - 1)
           first == addr \div LbasPerPage
           more == ((addr % LbasPerPage) + size - 1) \div LbasPerPage
<1>2. PageOf(addr) = first /\ last = first + more
  BY PageNumbers
<1>3. more = Further(addr, size)
  BY DEF Further
<1> HIDE DEF last, first, more
<1>4. last = PageOf(addr) + Further(addr, size)
  BY <1>2, <1>3
<1> QED
  BY <1>1, <1>4 DEF last

\* The list holds the n pages from base on.
Lists(list, base, n) ==
  /\ \A i \in 0..n - 1 : list[EntryAt(i, n)] = Data(base + i)
  /\ \A l \in 0..ListPagesFor(n) - 2 : list[l * ListEntries + ListEntries - 1] = Chain(l + 1)

\* With that PRP2 and such a list the controller gets the buffer's pages.
LEMMA FindsFrom ==
  ASSUME NEW addr \in Nat, NEW size \in Nat, size > 0, NEW list,
         Further(addr, size) > 1 => Lists(list, PageOf(addr) + 1, Further(addr, size))
  PROVE  ControllerFinds(addr, size, Prp2(addr, size), list)
<1> DEFINE more == Further(addr, size)
           pages == PageOf(addr + size - 1) - PageOf(addr) + 1
           second == PageOf(addr) + 1
           n == pages - 1
           listed == /\ Prp2(addr, size) = Chain(0)
                     /\ \A i \in 0..n-1 : list[EntryAt(i, n)] = Data(second + i)
                     /\ \A l \in 0..ListPagesFor(n)-2 :
                          list[l * ListEntries + ListEntries - 1] = Chain(l + 1)
           two == Prp2(addr, size) = Data(second)
<1>1. more \in Nat /\ PageOf(addr) \in Nat /\ PageOf(addr + size - 1) = PageOf(addr) + more
  BY LastPage
<1>2. pages = more + 1 /\ n = more
  BY <1>1
<1>3. more > 1 => listed
  BY <1>2, Prp2Cases DEF Lists
<1>4. more = 1 => two
  BY Prp2Cases
<1>5. ControllerFinds(addr, size, Prp2(addr, size), list) =
        CASE pages = 1 -> TRUE [] pages = 2 -> two [] pages > 2 -> listed
  BY Zenon DEF ControllerFinds
<1> HIDE DEF listed, two, n
<1>6. CASE more = 0
  <2>1. pages = 1 /\ pages # 2 /\ ~(pages > 2)
    BY <1>2, <1>6
  <2> HIDE DEF pages
  <2> QED
    BY <1>5, <2>1, Zenon
<1>7. CASE more = 1
  <2>1. pages # 1 /\ pages = 2 /\ ~(pages > 2)
    BY <1>2, <1>7
  <2> HIDE DEF pages
  <2> QED
    BY <1>4, <1>5, <1>7, <2>1, Zenon
<1>8. CASE more > 1
  <2>1. pages # 1 /\ pages # 2 /\ pages > 2
    BY <1>1, <1>2, <1>8
  <2> HIDE DEF pages
  <2> QED
    BY <1>3, <1>5, <1>8, <2>1, Zenon
<1> QED
  BY <1>1, <1>6, <1>7, <1>8

LEMMA TransferPages ==
  /\ ListPages * PerPage \in Nat
  /\ MaxTransfer = (ListPages * PerPage + 2) * LbasPerPage
<1> DEFINE P == ListPages
           K == PerPage
<1>1. P \in Nat /\ P > 0 /\ K \in Nat /\ ListEntries = K + 1 /\ ListEntries - 1 = K
  BY ListSizes DEF PerPage
<1>2. MaxTransfer = (1 + (P - 1) * K + (K + 1)) * LbasPerPage
  BY <1>1 DEF MaxTransfer
<1> HIDE DEF P, K
<1>3. P * K \in Nat /\ (P - 1) * K = P * K - K
  BY <1>1, ProductNat
<1>4. 1 + (P - 1) * K + (K + 1) = P * K + 2
  BY <1>1, <1>3
<1> QED
  BY <1>2, <1>3, <1>4 DEF P, K

\* NVME_MAX_SINGLE_TRANSFER: one entry more than the list holds when the buffer
\* starts inside a page, none when the transfer fits.
LEMMA NeededBound ==
  ASSUME NEW addr \in Nat, NEW size \in Nat, size > 0, size <= MaxTransfer
  PROVE  /\ Further(addr, size) <= ListPages * PerPage + 2
         /\ (addr % LbasPerPage) + size <= MaxTransfer => Further(addr, size) <= ListPages * PerPage + 1
<1> DEFINE L == LbasPerPage
           T == ListPages * PerPage + 2
           at == addr % L
           x == at + size - 1
           F == x \div L
<1>1. L \in Nat /\ L > 0 /\ T \in Nat /\ T - 1 \in Nat
  BY PrpAssumption, TransferPages
<1>2. MaxTransfer = T * L
  BY TransferPages
<1>3. at \in 0..L-1
  BY <1>1, DivMod
<1>4. F = Further(addr, size)
  BY DEF Further
<1> HIDE DEF L, T, at
<1>5. x \in Nat
  BY <1>1, <1>3
<1> HIDE DEF x
<1>6. F \in Nat /\ F * L <= x
  <2>1. F \in Nat /\ x % L \in 0..L-1 /\ x = F * L + (x % L)
    BY <1>1, <1>5, DivMod
  <2> QED
    BY <1>1, <2>1, ProductNat
<1> HIDE DEF F
<1>7. T * L \in Nat /\ F * L \in Nat /\ (T - 1) * L + L = T * L
  BY <1>1, <1>6, ProductNat
<1>8. F <= T
  <2> SUFFICES ASSUME T < F PROVE FALSE
    BY <1>1, <1>6
  <2>1. T * L + L <= F * L
    BY <1>1, <1>6, EarlierPage
  <2> QED
    BY <1>1, <1>2, <1>3, <1>6, <1>7, <2>1 DEF x
<1>9. at + size <= MaxTransfer => F <= T - 1
  <2> SUFFICES ASSUME at + size <= MaxTransfer, T - 1 < F PROVE FALSE
    BY <1>1, <1>6
  <2>1. (T - 1) * L + L <= F * L
    BY <1>1, <1>6, EarlierPage
  <2> QED
    BY <1>1, <1>2, <1>3, <1>6, <1>7, <2>1 DEF x
<1>10. T - 1 = ListPages * PerPage + 1
  BY TransferPages DEF T
<1> QED
  BY <1>4, <1>8, <1>9, <1>10 DEF T, at, L

LEMMA PosBound ==
  ASSUME NEW st \in PrpState, NEW list, NEW k \in Nat, NEW r \in Nat, LoopAt(st, list, k, r),
         st.i < st.needed, st.needed <= ListPages * PerPage + 2
  PROVE  /\ st.pos \in ListMemory /\ st.pos <= Capacity + 1
         /\ st.needed <= ListPages * PerPage + 1 => st.pos < Capacity
<1> DEFINE P == ListPages
           K == PerPage
           E == ListEntries
<1>1. P \in Nat /\ P > 0 /\ K \in Nat /\ K > 0 /\ E \in Nat /\ E = K + 1
  BY ListSizes
<1>2. st.pos = k * E + r /\ (k = 0 \/ k * K + 1 < st.needed)
  BY DEF LoopAt
<1>3. r <= K /\ st.needed \in Nat /\ st.needed <= P * K + 2
  BY DEF LoopAt, PrpState
<1>4. Capacity = P * E /\ ListMemory = 0..P * E + E - 1
  BY DEF Capacity, ListMemory
<1>10. k * K + r < st.needed
  BY DEF LoopAt
<1> HIDE DEF P, K, E
<1>5. P * K \in Nat /\ k * K \in Nat /\ P * E \in Nat /\ k * E \in Nat
  BY <1>1, ProductNat
<1>6. k <= P
  <2> SUFFICES ASSUME P < k PROVE FALSE
    BY <1>1
  <2>1. P * K + K <= k * K
    BY <1>1, EarlierPage
  <2> QED
    BY <1>1, <1>2, <1>3, <1>5, <2>1
<1>7. ASSUME k < P PROVE st.pos < P * E /\ st.pos \in Nat
  <2>1. k * E + E <= P * E
    BY <1>1, <1>7, EarlierPage
  <2> QED
    BY <1>1, <1>2, <1>3, <1>5, <2>1
<1>8. st.pos \in ListMemory /\ st.pos <= Capacity + 1
  <2>1. CASE k < P
    BY <1>1, <1>4, <1>5, <1>7, <2>1
  <2>2. CASE k = P
    <3>1. st.pos = P * E + r /\ P * K + r < st.needed
      BY <1>2, <1>10, <2>2
    <3>2. r <= 1
      BY <1>3, <1>5, <3>1
    <3> QED
      BY <1>1, <1>3, <1>4, <1>5, <3>1, <3>2
  <2> QED
    BY <1>1, <1>6, <2>1, <2>2
<1>9. ASSUME st.needed <= P * K + 1 PROVE st.pos < Capacity
  <2>1. k # P
    <3> SUFFICES ASSUME k = P PROVE FALSE
      OBVIOUS
    <3>1. P * K + 1 < st.needed
      BY <1>1, <1>2
    <3> QED
      BY <1>3, <1>5, <1>9, <3>1
  <2>2. k < P
    BY <1>1, <1>6, <2>1
  <2> QED
    BY <1>4, <1>7, <2>2
<1> QED
  BY <1>8, <1>9 DEF P, K

-----------------------------------------------------------------------------
(***************************************************************************)
(* The list of the command under way.                                      *)
(***************************************************************************)

ListBegun(c) ==
  /\ prp \in PrpState /\ prp.base = PageOf(c.addr) + 1
  /\ prp.needed = (IF Further(c.addr, c.n) > 1 THEN Further(c.addr, c.n) ELSE 0)
  /\ \E k, r \in Nat : LoopAt(prp, prp_list, k, r)

PrpInv ==
  /\ prp_list = [p \in ListMemory |-> prp_list[p]]
  /\ pc = "prp" => ListBegun(sq[sq_tail])
  /\ PrpDescribesBuffer

LEMMA BatchSizes ==
  ASSUME DriverInv, NEW c, IsBatch(c)
  PROVE  c.addr \in Nat /\ c.n \in Nat /\ c.n > 0 /\ c.n <= MaxTransfer
<1>1. call.off \in Nat /\ call.done \in Nat
  BY DEF DriverInv, DriverTypeOK
<1> QED
  BY <1>1 DEF IsBatch

LEMMA PrpInit == DiskInit => PrpInv
<1> SUFFICES ASSUME DiskInit PROVE PrpInv
  OBVIOUS
<1>1. pc = "off" /\ prp_list = BlankList
  BY DEF DiskInit, NvmeOff
<1> QED
  BY <1>1 DEF PrpInv, PrpDescribesBuffer, BlankList

LEMMA PrpCall == ASSUME DriverInv, PrpInv, NvmeCall PROVE PrpInv'
<1>1. pc' = "fill" /\ prp_list' = prp_list
  BY DEF NvmeCall
<1> QED
  BY <1>1 DEF PrpInv, PrpDescribesBuffer

LEMMA PrpIoCmd == ASSUME DriverInv, PrpInv, IoCmd PROVE PrpInv'
<1> DEFINE c == sq'[sq_tail']
<1>1. pc = "fill" /\ pc' = "prp" /\ UNCHANGED <<prp_list, call, sq_tail>>
  BY DEF IoCmd
<1>2. IsBatch(sq[sq_tail])'
  BY <1>1, DriverIoCmd DEF DriverInv
<1>3. c.addr \in Nat /\ c.n \in Nat /\ c.n > 0
  <2>1. c.addr = call.off + call.done /\ c.n \in Nat \ {0}
    BY <1>1, <1>2 DEF IsBatch
  <2> QED
    BY <2>1 DEF DriverInv, DriverTypeOK
<1>4. prp' = PrpStart(c.addr, c.n)
  <2> DEFINE left == call.nlb - call.done
             batch == IF left > MaxTransfer THEN MaxTransfer ELSE left
             addr == call.off + call.done
             d == [num |-> cmds + 1, lo |-> call.done, n |-> batch, addr |-> addr,
                   prp2 |-> Prp2(addr, batch)]
  <2>1. sq' = [sq EXCEPT ![sq_tail] = d] /\ prp' = PrpStart(addr, batch)
    BY DEF IoCmd
  <2>2. d.n = batch /\ d.addr = addr
    OBVIOUS
  <2> HIDE DEF d, batch, addr
  <2>3. sq'[sq_tail] = d
    BY <2>1 DEF DriverInv, DriverTypeOK
  <2> QED
    BY <1>1, <2>1, <2>2, <2>3
<1>5. /\ prp' \in PrpState /\ prp'.pos = 0 /\ prp'.i = 0 /\ prp'.base = PageOf(c.addr) + 1
      /\ prp'.needed = (IF Further(c.addr, c.n) > 1 THEN Further(c.addr, c.n) ELSE 0)
  BY <1>3, <1>4, PrpStartValue
<1> HIDE DEF c
<1>6. LoopAt(prp', prp_list', 0, 0)
  <2>1. prp'.needed \in Nat
    BY <1>5 DEF PrpState
  <2>2. 0 * ListEntries + 0 = 0 /\ 0 * PerPage + 0 = 0 /\ 0 <= ListEntries /\ 0 <= PerPage
    BY ListSizes
  <2> QED
    BY <1>5, <2>1, <2>2 DEF LoopAt
<1>7. \E k, r \in Nat : LoopAt(prp', prp_list', k, r)
  BY <1>6
<1>8. ListBegun(sq[sq_tail])'
  BY <1>5, <1>7 DEF ListBegun, c
<1>9. prp_list' = [p \in ListMemory |-> prp_list'[p]]
  BY <1>1 DEF PrpInv
<1> QED
  BY <1>1, <1>8, <1>9 DEF PrpInv, PrpDescribesBuffer

\* Where setup_prp's loop writes next.
LEMMA WriteAt ==
  ASSUME DriverInv, PrpInv, pc = "prp", prp.i < prp.needed
  PROVE  /\ prp.pos \in ListMemory /\ prp.pos \in Nat /\ prp.pos <= Capacity + 1
         /\ prp.pos < Capacity \/ PagesTooMany(sq[sq_tail])
<1> DEFINE c == sq[sq_tail]
<1>1. ListBegun(c) /\ IsBatch(c)
  BY DEF PrpInv, DriverInv
<1> HIDE DEF c
<1>2. c.addr \in Nat /\ c.n \in Nat /\ c.n > 0 /\ c.n <= MaxTransfer
  BY <1>1, BatchSizes
<1>3. PICK k \in Nat, r \in Nat : LoopAt(prp, prp_list, k, r)
  BY <1>1 DEF ListBegun
<1>4. prp \in PrpState /\ prp.i \in Nat /\ prp.pos \in Nat
  BY <1>1 DEF ListBegun, PrpState
<1>5. prp.needed = Further(c.addr, c.n)
  BY <1>1, <1>4 DEF ListBegun
<1>6. /\ prp.needed <= ListPages * PerPage + 2
      /\ (c.addr % LbasPerPage) + c.n <= MaxTransfer => prp.needed <= ListPages * PerPage + 1
  BY <1>2, <1>5, NeededBound
<1>7. /\ prp.pos \in ListMemory /\ prp.pos <= Capacity + 1
      /\ (c.addr % LbasPerPage) + c.n <= MaxTransfer => prp.pos < Capacity
  BY <1>3, <1>4, <1>6, PosBound
<1>8. prp.pos < Capacity \/ PagesTooMany(c)
  <2>1. LbasPerPage \in Nat /\ LbasPerPage > 0 /\ MaxTransfer \in Nat
    BY TransferSize
  <2>2. (c.addr % LbasPerPage) \in Nat
    BY <1>2, <2>1
  <2> DEFINE at == c.addr % LbasPerPage
  <2> HIDE DEF at
  <2>3. at \in Nat
    BY <2>2 DEF at
  <2>4. at + c.n <= MaxTransfer \/ at + c.n > MaxTransfer
    BY <1>2, <2>1, <2>3
  <2> QED
    BY <1>2, <1>7, <2>4 DEF at, PagesTooMany
<1> QED
  BY <1>4, <1>7, <1>8 DEF c

LEMMA PrpSetup == ASSUME DriverInv, PrpInv, SetupPrp PROVE PrpInv'
<1> DEFINE c == sq[sq_tail]
<1>1. /\ pc = "prp" /\ prp.i < prp.needed /\ prp' = PrpAdvance(prp)
      /\ prp_list' = [prp_list EXCEPT ![prp.pos] = PrpEntry(prp)]
      /\ UNCHANGED <<pc, call, sq, sq_tail>>
  BY DEF SetupPrp
<1>2. ListBegun(c)
  BY <1>1 DEF PrpInv
<1> HIDE DEF c
<1>4. PICK k \in Nat, r \in Nat : LoopAt(prp, prp_list, k, r)
  BY <1>2 DEF ListBegun
<1>5. prp \in PrpState /\ prp.i \in Nat /\ prp.pos \in Nat
  BY <1>2 DEF ListBegun, PrpState
<1>8. prp.pos \in ListMemory
  BY <1>1, WriteAt
<1>9. prp_list = [p \in ListMemory |-> prp_list[p]]
  BY DEF PrpInv
<1>10. \E k2, r2 \in Nat : LoopAt(prp', prp_list', k2, r2)
  <2>1. \E k2, r2 \in Nat :
          LoopAt(PrpAdvance(prp), [prp_list EXCEPT ![prp.pos] = PrpEntry(prp)], k2, r2)
    BY <1>1, <1>4, <1>5, <1>8, <1>9, LoopStep
  <2> QED
    BY <1>1, <2>1
<1>11. prp' \in PrpState /\ prp'.base = prp.base /\ prp'.needed = prp.needed
  <2> DEFINE i2 == IF PrpIsChain(prp) THEN prp.i ELSE prp.i + 1
             pos2 == prp.pos + 1
  <2>1. i2 \in Nat /\ pos2 \in Nat
    BY <1>5
  <2>2. prp' = [prp EXCEPT !.pos = pos2, !.i = i2]
    BY <1>1, <1>5 DEF PrpAdvance, PrpState
  <2> HIDE DEF i2, pos2
  <2> QED
    BY <1>5, <2>1, <2>2 DEF PrpState
<1>12. ListBegun(sq[sq_tail])'
  <2>1. sq'[sq_tail'] = c
    BY <1>1 DEF c
  <2> QED
    BY <1>2, <1>10, <1>11, <2>1 DEF ListBegun
<1>13. prp_list' = [p \in ListMemory |-> prp_list'[p]]
  BY <1>1, <1>9
<1> QED
  BY <1>1, <1>12, <1>13 DEF PrpInv, PrpDescribesBuffer

LEMMA PrpRing == ASSUME DriverInv, PrpInv, Ring PROVE PrpInv'
<1> DEFINE c == sq[sq_tail]
<1>1. /\ pc = "prp" /\ pc' = "poll" /\ prp.i >= prp.needed /\ sq_tail' = Succ(sq_tail)
      /\ UNCHANGED <<call, sq, prp_list>>
  BY DEF Ring
<1>2. ListBegun(c) /\ IsBatch(c)
  BY <1>1 DEF PrpInv, DriverInv
<1>3. Own' = c
  BY <1>1, SuccValue DEF Own, DriverInv, DriverTypeOK
<1> HIDE DEF c
<1>4. c.addr \in Nat /\ c.n \in Nat /\ c.n > 0 /\ c.prp2 = Prp2(c.addr, c.n)
  BY <1>2, BatchSizes DEF IsBatch
<1>5. PICK k \in Nat, r \in Nat : LoopAt(prp, prp_list, k, r)
  BY <1>2 DEF ListBegun
<1>6. Lists(prp_list, prp.base, prp.needed)
  <2>1. prp \in PrpState
    BY <1>2 DEF ListBegun
  <2> QED
    BY <1>1, <1>5, <2>1, LoopDone DEF Lists
<1>7. Further(c.addr, c.n) > 1 => Lists(prp_list, PageOf(c.addr) + 1, Further(c.addr, c.n))
  <2>1. Further(c.addr, c.n) > 1 =>
          prp.base = PageOf(c.addr) + 1 /\ prp.needed = Further(c.addr, c.n)
    BY <1>2 DEF ListBegun
  <2> QED
    BY <1>6, <2>1
<1>8. ControllerFinds(c.addr, c.n, c.prp2, prp_list)
  <2>1. ControllerFinds(c.addr, c.n, Prp2(c.addr, c.n), prp_list)
    BY <1>4, <1>7, FindsFrom
  <2> QED
    BY <1>4, <2>1
<1>9. PrpDescribesBuffer'
  BY <1>1, <1>3, <1>8 DEF PrpDescribesBuffer
<1> QED
  BY <1>1, <1>9 DEF PrpInv

LEMMA PrpPoll == ASSUME DriverInv, PrpInv, PollHit \/ PollTimeout PROVE PrpInv'
<1>1. pc = "poll" /\ prp_list' = prp_list /\ \E ok \in BOOLEAN : StatusOf(ok)
  <2>1. cq[cq_head].ok \in BOOLEAN
    BY DEF DriverInv, DriverTypeOK
  <2> QED
    BY <2>1 DEF PollHit, PollTimeout
<1>2. pc' \in {"idle", "fill"}
  BY <1>1 DEF StatusOf
<1> QED
  BY <1>1, <1>2 DEF PrpInv, PrpDescribesBuffer

LEMMA PrpOther ==
  ASSUME DriverInv, PrpInv, NvmeInit \/ Controller \/ UNCHANGED nvmeVars PROVE PrpInv'
<1>1. /\ UNCHANGED <<call, sq, sq_tail, prp, prp_list>>
      /\ pc' = pc \/ (pc = "off" /\ pc' = "idle")
  BY DEF NvmeInit, Controller, Fetch, Complete, nvmeVars, drv
<1>2. PrpDescribesBuffer'
  BY <1>1 DEF PrpInv, PrpDescribesBuffer, Own
<1>3. pc' = "prp" => ListBegun(sq[sq_tail])'
  BY <1>1 DEF PrpInv, ListBegun
<1> QED
  BY <1>1, <1>2, <1>3 DEF PrpInv

LEMMA PrpInvStep == ASSUME DriverInv, PrpInv, [DiskNext]_vars PROVE PrpInv'
  BY NvmeSteps, PrpCall, PrpIoCmd, PrpSetup, PrpRing, PrpPoll, PrpOther

LEMMA PrpInvariance == DiskSpec => [](DriverInv /\ PrpInv)
<1>1. DiskInit => DriverInv /\ PrpInv
  BY DriverInit, PrpInit
<1>2. (DriverInv /\ PrpInv) /\ [DiskNext]_vars => (DriverInv /\ PrpInv)'
  BY DriverInvStep, PrpInvStep
<1> QED
  BY <1>1, <1>2, PTL DEF DiskSpec

\* While a command is under way, the controller following PRP1, PRP2 and the
\* chained list gets exactly the pages of the caller's buffer, in order: for
\* pages and list pages of any size, any number of list pages and every batch.
THEOREM PrpDescribesBufferHolds == DiskSpec => []PrpDescribesBuffer
<1>1. DriverInv /\ PrpInv => PrpDescribesBuffer
  BY DEF PrpInv
<1> QED
  BY <1>1, PrpInvariance, PTL

\* setup_prp writes past n->prp_list only for a batch of at most
\* NVME_MAX_SINGLE_TRANSFER that reaches, counted from the start of its first page,
\* beyond it, and then only the two words behind the list: for pages and lists of
\* any size and every buffer.
THEOREM OverrunIsUnalignedHolds == DiskSpec => OverrunIsUnaligned
<1> DEFINE Only == \A p \in Behind : prp_list'[p] # prp_list[p] =>
                     PagesTooMany(sq[sq_tail]) /\ p <= Capacity + 1
<1>1. ASSUME DriverInv, PrpInv, [DiskNext]_vars PROVE [Only]_nvmeVars
  <2>1. CASE SetupPrp
    <3>1. /\ pc = "prp" /\ prp.i < prp.needed
          /\ prp_list' = [prp_list EXCEPT ![prp.pos] = PrpEntry(prp)]
      BY <2>1 DEF SetupPrp
    <3>2. /\ prp.pos \in Nat /\ prp.pos <= Capacity + 1
          /\ prp.pos < Capacity \/ PagesTooMany(sq[sq_tail])
      BY <1>1, <3>1, WriteAt
    <3>3. ASSUME NEW p \in Behind, prp_list'[p] # prp_list[p]
          PROVE  PagesTooMany(sq[sq_tail]) /\ p <= Capacity + 1
      <4>1. p = prp.pos
        <5>1. p \in ListMemory /\ prp_list = [q \in ListMemory |-> prp_list[q]]
          BY <1>1, <3>3, ListSizes DEF Behind, ListMemory, PrpInv
        <5> QED
          BY <3>1, <3>3, <5>1
      <4>2. ~(p < Capacity)
        BY <3>3, ListSizes DEF Behind
      <4> QED
        BY <3>2, <4>1, <4>2
    <3> QED
      BY <3>3
  <2>2. CASE ~SetupPrp
    <3>1. prp_list' = prp_list
      BY <1>1, <2>2, NvmeSteps
      DEF NvmeCall, NvmeInit, IoCmd, Ring, PollHit, PollTimeout, Controller, Fetch, Complete,
          nvmeVars, drv
    <3> QED
      BY <3>1
  <2> QED
    BY <2>1, <2>2
<1> QED
  BY <1>1, PrpInvariance, PTL DEF DiskSpec, OverrunIsUnaligned
=============================================================================
