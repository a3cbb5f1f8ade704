-------------------------------- MODULE Nvme --------------------------------
(***************************************************************************)
(* The NVMe driver: nvme_read, nvme_write and nvme_flush, the submission   *)
(* queue, the completion queue with its phase bit, and the polling loop of *)
(* submit_and_wait.  One command is outstanding at a time unless a poll    *)
(* has given up.                                                           *)
(*                                                                         *)
(* External: the controller fetches commands behind the tail doorbell,     *)
(* executes them on worker threads in any order, and posts completions     *)
(* whose phase flips each time its queue wraps.                            *)
(***************************************************************************)
EXTENDS Prp

CONSTANTS
  Depth,       \* QUEUE_DEPTH (64)
  Buffers,     \* the (offset of the buffer in its first page, nlb) of calls made
  MaxCmds,     \* bound: commands submitted
  MaxTimeouts  \* bound: polls that give up

ASSUME NvmeAssumption ==
  /\ Depth \in Nat \ {0, 1}
  /\ MaxCmds \in Nat /\ MaxTimeouts \in Nat
  /\ \A b \in Buffers : b.off \in 0..LbasPerPage-1 /\ b.nlb \in Nat \ {0}

VARIABLES
  pc,          \* off, idle, fill, prp, poll
  call,        \* the call in progress: off, nlb, and the blocks done so far
  sq, sq_tail,          \* iosq_buf and iosq_tail
  cq, cq_head, phase,   \* iocq_buf, iocq_head and iocq_phase
  prp_list, prp,        \* n->prp_list and what follows it; setup_prp's loop
  db_tail, db_head,     \* the doorbells
  dev_head, working, dev_tail, dev_phase,   \* the controller
  cmds,        \* history: commands submitted; the latest one is the driver's own
  moved,       \* history: blocks of the call in progress that were transferred
  ret,         \* history: the blocks the last call returned, 0 while in a call
  abandoned    \* history: polls that gave up

drv == <<pc, call, sq, sq_tail, cq_head, phase, prp_list, prp, db_tail, db_head, cmds, ret, abandoned>>
ctl == <<cq, dev_head, working, dev_tail, dev_phase, moved>>
nvmeVars == <<drv, ctl>>

Slots == 0..Depth-1
Succ(i) == (i + 1) % Depth
NoCmd == [num |-> 0, lo |-> 0, n |-> 0, addr |-> 0, prp2 |-> NoEntry]
NoCall == [off |-> 0, nlb |-> 0, done |-> 0]

NvmeOff ==
  /\ pc = "off" /\ call = NoCall
  /\ sq = [i \in Slots |-> NoCmd] /\ sq_tail = 0
  /\ cq = [i \in Slots |-> [phase |-> FALSE, ok |-> FALSE]]
  /\ cq_head = 0 /\ phase = TRUE
  /\ prp_list = BlankList /\ prp = PrpStart(0, 1)
  /\ db_tail = 0 /\ db_head = 0
  /\ dev_head = 0 /\ working = {} /\ dev_tail = 0 /\ dev_phase = TRUE
  /\ cmds = 0 /\ moved = {}
  /\ ret = 0 /\ abandoned = 0

\* nvme_init_nth: blank queues, expected phase 1, controller reset and enabled,
\* three admin commands; any of them failing leaves `present` false for good.
NvmeInit ==
  /\ pc = "off"
  /\ pc' = "idle"
  /\ UNCHANGED <<call, sq, sq_tail, cq_head, phase, prp_list, prp, db_tail, db_head, cmds, ret, abandoned, ctl>>

-----------------------------------------------------------------------------
(***************************************************************************)
(* The driver.                                                             *)
(***************************************************************************)

\* nvme_read / nvme_write of nlb blocks.  nvme_flush is the call of one block
\* that moves no data: its command either has been executed or has not.
NvmeCall ==
  /\ pc = "idle"
  /\ \E b \in Buffers : call' = [off |-> b.off, nlb |-> b.nlb, done |-> 0]
  /\ pc' = "fill"
  /\ moved' = {}
  /\ ret' = 0
  /\ UNCHANGED <<sq, sq_tail, cq_head, phase, prp_list, prp, db_tail, db_head, cmds, abandoned,
                 cq, dev_head, working, dev_tail, dev_phase>>

IoCmdUncapped ==
  /\ pc = "fill"
  /\ cmds < MaxCmds
  /\ LET batch == call.nlb - call.done
         addr  == call.off + call.done
     IN /\ sq' = [sq EXCEPT ![sq_tail] =
                   [num |-> cmds + 1, lo |-> call.done, n |-> batch, addr |-> addr,
                    prp2 |-> Prp2(addr, batch)]]
        /\ prp' = PrpStart(addr, batch)
  /\ cmds' = cmds + 1
  /\ pc' = "prp"
  /\ UNCHANGED <<call, sq_tail, cq_head, phase, prp_list, db_tail, db_head, ret, abandoned, ctl>>

\* io_cmd: the SQE at the tail slot, with setup_prp's PRPs for the next batch.
IoCmd ==
  /\ pc = "fill"
  /\ cmds < MaxCmds
  /\ LET left  == call.nlb - call.done
         batch == IF left > MaxTransfer THEN MaxTransfer ELSE left
         addr  == call.off + call.done
     IN /\ sq' = [sq EXCEPT ![sq_tail] =
                   [num |-> cmds + 1, lo |-> call.done, n |-> batch, addr |-> addr,
                    prp2 |-> Prp2(addr, batch)]]
        /\ prp' = PrpStart(addr, batch)
  /\ cmds' = cmds + 1
  /\ pc' = "prp"
  /\ UNCHANGED <<call, sq_tail, cq_head, phase, prp_list, db_tail, db_head, ret, abandoned, ctl>>

\* setup_prp's loop, one turn at a time.
SetupPrp ==
  /\ pc = "prp"
  /\ prp.i < prp.needed
  /\ prp_list' = [prp_list EXCEPT ![prp.pos] = PrpEntry(prp)]
  /\ prp' = PrpAdvance(prp)
  /\ UNCHANGED <<pc, call, sq, sq_tail, cq_head, phase, db_tail, db_head, cmds, ret, abandoned, ctl>>

\* n->bar0, the field behind n->prp_list, holds a list entry.  It is set for good
\* at nvme_init_nth, and every doorbell is an offset from it: from now on they are
\* written to memory (to the caller's buffer, whose address the entry is).
Bar0Lost == prp_list[Capacity] # NoEntry

\* submit_and_wait: the tail moves on and its doorbell is rung.
Ring ==
  /\ pc = "prp"
  /\ prp.i >= prp.needed
  /\ sq_tail' = Succ(sq_tail)
  /\ db_tail' = IF Bar0Lost THEN db_tail ELSE Succ(sq_tail)
  /\ prp' = PrpStart(0, 1)
  /\ pc' = "poll"
  /\ UNCHANGED <<call, sq, cq_head, phase, prp_list, db_head, cmds, ret, abandoned, ctl>>

\* nvme_read gets a status: a batch done and perhaps another one to do, or an
\* error and the count so far.  Its own command is the one it filled in last.
StatusOf(ok) ==
  LET batch == sq[IF sq_tail = 0 THEN Depth - 1 ELSE sq_tail - 1].n
      done  == IF ok THEN call.done + batch ELSE call.done
      more  == ok /\ done < call.nlb
  IN /\ pc' = IF more THEN "fill" ELSE "idle"
     /\ call' = IF more THEN [call EXCEPT !.done = done] ELSE NoCall
     /\ ret' = IF more THEN 0 ELSE done

CqTakeFlipsEarly ==
  /\ cq_head' = Succ(cq_head)
  /\ phase' = IF Succ(cq_head) = Depth - 1 THEN ~phase ELSE phase

\* The head moves on, and the expected phase flips when it wraps.
CqTake ==
  /\ cq_head' = Succ(cq_head)
  /\ phase' = IF Succ(cq_head) = 0 THEN ~phase ELSE phase

\* The entry at the head has the expected phase: take its status, move on,
\* flip the phase on wrapping, ring the head doorbell.
PollHit ==
  /\ pc = "poll"
  /\ cq[cq_head].phase = phase
  /\ CqTake
  /\ db_head' = IF Bar0Lost THEN db_head ELSE cq_head'
  /\ StatusOf(cq[cq_head].ok)
  /\ UNCHANGED <<sq, sq_tail, prp_list, prp, db_tail, cmds, abandoned, ctl>>

\* 16 million turns without it: status 0xFFFF, head and phase as they were.
PollTimeout ==
  /\ pc = "poll"
  /\ cq[cq_head].phase # phase
  /\ abandoned < MaxTimeouts
  /\ StatusOf(FALSE)
  /\ abandoned' = abandoned + 1
  /\ UNCHANGED <<sq, sq_tail, cq_head, phase, prp_list, prp, db_tail, db_head, cmds, ctl>>

-----------------------------------------------------------------------------
(***************************************************************************)
(* The controller.                                                         *)
(***************************************************************************)

Fetch ==
  /\ dev_head # db_tail
  /\ working' = working \cup {sq[dev_head]}
  /\ dev_head' = Succ(dev_head)
  /\ UNCHANGED <<drv, cq, dev_tail, dev_phase, moved>>

\* A command is executed, its completion posted.  Only the newest command can
\* move blocks of the call in progress that are not moved yet.
Complete(c) ==
  /\ Succ(dev_tail) # db_head
  /\ \E ok \in BOOLEAN :
       /\ cq' = [cq EXCEPT ![dev_tail] = [phase |-> dev_phase, ok |-> ok]]
       /\ moved' = IF ok /\ c.num = cmds /\ pc = "poll"
                   THEN moved \cup c.lo..c.lo + c.n - 1 ELSE moved
  /\ dev_tail' = Succ(dev_tail)
  /\ dev_phase' = IF Succ(dev_tail) = 0 THEN ~dev_phase ELSE dev_phase
  /\ working' = working \ {c}
  /\ UNCHANGED <<drv, dev_head>>

-----------------------------------------------------------------------------

Driver == NvmeInit \/ IoCmd \/ SetupPrp \/ Ring \/ PollHit
Controller == Fetch \/ \E c \in working : Complete(c)

-----------------------------------------------------------------------------
(***************************************************************************)
(* Properties.  Disk.tla composes the driver with its callers.             *)
(***************************************************************************)

\* The command the driver is waiting for.
Own == sq[IF sq_tail = 0 THEN Depth - 1 ELSE sq_tail - 1]

\* Every block counted as done has been transferred.
DoneIsTransferred == 0..call.done + ret - 1 \subseteq moved

\* While a command is under way, the controller following PRP1, PRP2 and the
\* list gets exactly the pages of the caller's buffer, in order.
PrpDescribesBuffer ==
  pc = "poll" => ControllerFinds(Own.addr, Own.n, Own.prp2, prp_list)

\* setup_prp never writes past n->prp_list: "max data entries = 15 chained x 511
\* + 1 final x 512" are enough for a "max single transfer" (nvme.h:24-44).
Behind == Capacity..Capacity + ListEntries - 1
PrpInBounds == \A p \in Behind : prp_list[p] = NoEntry

\* The only commands that do are batches of at most NVME_MAX_SINGLE_TRANSFER that
\* reach, counted from the start of their first page, beyond it: one page more
\* than the list was made for.  They overwrite two entries' worth, bar0 and
\* num_lbas.
PagesTooMany(c) ==
  c.n <= MaxTransfer /\ (c.addr % LbasPerPage) + c.n > MaxTransfer

OverrunIsUnaligned ==
  [][\A p \in Behind : prp_list'[p] # prp_list[p] =>
       PagesTooMany(sq[sq_tail]) /\ p <= Capacity + 1]_nvmeVars

\* Every call returns without having to give up, unless a batch has overwritten
\* bar0: the poll recognises the answer, on every lap.
CallReturns ==
  (pc \in {"prp", "poll"}) ~> (pc \in {"idle", "fill"} \/ abandoned > 0 \/ Bar0Lost)
=============================================================================
