---------------------------- MODULE IrqEthProofs ----------------------------
(***************************************************************************)
(* Proofs about external interrupts (irq.c) and about the ethernet         *)
(* driver, which receives from its interrupt handler (eth_rtl8169.c).      *)
(***************************************************************************)
EXTENDS Irq, Eth, SequenceTheorems, TLAPS

-----------------------------------------------------------------------------
(***************************************************************************)
(* Safety of the external-interrupt path, for any set of sources, any      *)
(* priority range, any number of events and whatever state the previous    *)
(* stage left the PLIC in.  The argument: the dispatcher calls a handler   *)
(* only for a source whose enable bit is set; after irq_init those are the *)
(* sources the program asked for (EnableInv); and the only torn table      *)
(* entry is that of the irq_register in progress (TableInv).               *)
(***************************************************************************)

USE IrqAssumption

LEMMA IrqInitEstablishes == IrqBoot => IrqIInv
<1> SUFFICES ASSUME IrqBoot PROVE IrqIInv
  OBVIOUS
<1>1. IrqTypeOK
  <2>1. /\ handlers \in [Sources -> Handlers] /\ prio \in [Sources -> 0..PrioMod-1]
        /\ threshold \in 0..PrioMod-1 /\ events \in 0..MaxEvents
    BY DEF IrqBoot, Handlers
  <2>2. reg \in [source : Sources \cup {0}, ctx : 0..Regs]
    BY DEF IrqBoot
  <2>3. /\ line \in SUBSET Sources /\ pending \in SUBSET Sources /\ inflight \in SUBSET Sources
        /\ left \in SUBSET Sources /\ asked \in SUBSET Sources /\ enable \in SUBSET Sources
    BY DEF IrqBoot
  <2>4. /\ meie \in BOOLEAN /\ ie \in BOOLEAN /\ src \in Sources \cup {0}
        /\ pc \in {"user", "claim", "fn", "complete"}
    BY DEF IrqBoot
  <2> QED
    BY <2>1, <2>2, <2>3, <2>4 DEF IrqTypeOK
<1>2. EveryClaimCompleted /\ ClaimInv /\ EnableInv
  BY DEF IrqBoot, EveryClaimCompleted, ClaimInv, EnableInv
<1>3. TableInv
  BY DEF IrqBoot, TableInv
<1> QED
  BY <1>1, <1>2, <1>3 DEF IrqIInv

\* Masked priorities stay in range.
LEMMA Masked == \A p \in Nat : p % PrioMod \in 0..PrioMod-1
  OBVIOUS

-----------------------------------------------------------------------------

\* Every step keeps the variables in their ranges.
LEMMA IrqTypeStep == ASSUME IrqIInv, IrqNext PROVE IrqTypeOK'
<1> USE DEF IrqIInv, IrqTypeOK, plicRegs, wires
<1>1. CASE IrqInit
  BY <1>1 DEF IrqInit, Handlers
<1>2. CASE IrqRegisterCtx
  <2>1. reg.source \in Sources /\ reg.ctx \in 0..Regs
    BY <1>2 DEF IrqRegisterCtx
  <2>2. handlers' \in [Sources -> Handlers]
    BY <1>2, <2>1 DEF IrqRegisterCtx, Handlers
  <2> QED
    BY <1>2, <2>2 DEF IrqRegisterCtx
<1>3. CASE SetThreshold
  BY <1>3, Masked DEF SetThreshold
<1>4. CASE GlobalEnable \/ GlobalDisable
  BY <1>4 DEF GlobalEnable, GlobalDisable
<1>5. ASSUME NEW s \in Sources, IrqRegister(s) PROVE IrqTypeOK'
  <2>1. PICK j \in 0..Regs : /\ handlers' = [handlers EXCEPT ![s].fn = j]
                             /\ reg' = [source |-> s, ctx |-> j]
    BY <1>5 DEF IrqRegister
  <2>2. handlers' \in [Sources -> Handlers]
    BY <2>1 DEF Handlers
  <2> QED
    BY <1>5, <2>1, <2>2 DEF IrqRegister
<1>6. ASSUME NEW s \in Sources, EnableSource(s) PROVE IrqTypeOK'
  BY <1>6 DEF EnableSource
<1>7. ASSUME NEW s \in Sources, DisableSource(s) PROVE IrqTypeOK'
  BY <1>7 DEF DisableSource
<1>8. ASSUME NEW s \in Sources, SetPriority(s) PROVE IrqTypeOK'
  <2>1. PICK p \in 0..PrioMod : prio' = [prio EXCEPT ![s] = p % PrioMod]
    BY <1>8 DEF SetPriority
  <2>2. prio' \in [Sources -> 0..PrioMod-1]
    BY <2>1, Masked
  <2> QED
    BY <1>8, <2>2 DEF SetPriority
<1>9. CASE TrapEnter
  BY <1>9 DEF TrapEnter
<1>10. CASE HandleClaim
  BY <1>10 DEF HandleClaim, PlicClaim, Claimable
<1>11. CASE HandleDone
  BY <1>11 DEF HandleDone
<1>12. CASE HandleFn
  BY <1>12 DEF HandleFn
<1>13. CASE HandleComplete
  BY <1>13 DEF HandleComplete
<1>14. ASSUME NEW s \in Sources, DeviceRaises(s) PROVE IrqTypeOK'
  BY <1>14 DEF DeviceRaises
<1>15. ASSUME NEW s \in Sources, Gateway(s) PROVE IrqTypeOK'
  BY <1>15 DEF Gateway
<1> QED
  BY <1>1, <1>2, <1>3, <1>4, <1>5, <1>6, <1>7, <1>8, <1>9, <1>10, <1>11, <1>12, <1>13, <1>14,
     <1>15
  DEF IrqNext, User, Trap

-----------------------------------------------------------------------------

\* The four parts of the invariant that are about more than ranges.
LEMMA ClaimStep == ASSUME IrqIInv, IrqNext PROVE EveryClaimCompleted' /\ ClaimInv'
<1> USE DEF IrqIInv, IrqTypeOK, EveryClaimCompleted, ClaimInv, wires
<1>1. CASE User
  BY <1>1 DEF User, IrqInit, IrqRegisterCtx, SetThreshold, GlobalEnable, GlobalDisable,
     IrqRegister, EnableSource, DisableSource, SetPriority
<1>2. CASE TrapEnter \/ HandleDone
  BY <1>2 DEF TrapEnter, HandleDone
<1>3. CASE HandleClaim
  <2>1. PICK s \in Sources : PlicClaim(s) /\ src' = s
    BY <1>3 DEF HandleClaim
  <2>2. inflight = left /\ left' = left /\ pc' \in {"fn", "complete"}
    BY <1>3 DEF HandleClaim
  <2>3. s \in pending /\ pending' = pending \ {s} /\ inflight' = left \cup {s}
    BY <2>1, <2>2 DEF PlicClaim, Claimable
  <2>4. s \notin left
    BY <2>2, <2>3
  <2> QED
    BY <2>1, <2>2, <2>3, <2>4
<1>4. CASE HandleFn
  BY <1>4 DEF HandleFn
<1>5. CASE HandleComplete
  <2>1. inflight = left \cup {src} /\ src \notin left /\ pending \cap left = {}
    BY <1>5 DEF HandleComplete
  <2>2. /\ inflight' = inflight \ {src} /\ left' = left /\ pending' = pending
        /\ pc' = "claim"
    BY <1>5 DEF HandleComplete
  <2>3. inflight' = left'
    BY <2>1, <2>2
  <2> HIDE DEF IrqIInv, IrqTypeOK
  <2> QED
    BY <2>1, <2>2, <2>3
<1>6. ASSUME NEW s \in Sources, DeviceRaises(s) \/ Gateway(s)
      PROVE  EveryClaimCompleted' /\ ClaimInv'
  <2>1. CASE DeviceRaises(s)
    BY <2>1 DEF DeviceRaises
  <2>2. CASE Gateway(s)
    <3>1. UNCHANGED <<inflight, left, pc, src>>
      BY <2>2 DEF Gateway
    <3>2. s \notin inflight /\ pending' = pending \cup {s}
      BY <2>2 DEF Gateway
    <3> QED
      BY <3>1, <3>2
  <2> QED
    BY <1>6, <2>1, <2>2
<1> QED
  BY <1>1, <1>2, <1>3, <1>4, <1>5, <1>6 DEF IrqNext, Trap

LEMMA EnableStep == ASSUME IrqIInv, IrqNext PROVE EnableInv'
<1> USE DEF IrqIInv, EnableInv, plicRegs
<1>1. CASE IrqInit
  BY <1>1 DEF IrqInit, InUser
<1>2. CASE IrqRegisterCtx \/ SetThreshold \/ GlobalEnable \/ GlobalDisable
  BY <1>2 DEF IrqRegisterCtx, SetThreshold, GlobalEnable, GlobalDisable, InUser
<1>3. ASSUME NEW s \in Sources, IrqRegister(s) \/ SetPriority(s) PROVE EnableInv'
  BY <1>3 DEF IrqRegister, SetPriority, InUser
<1>4. ASSUME NEW s \in Sources, EnableSource(s) \/ DisableSource(s) PROVE EnableInv'
  BY <1>4 DEF EnableSource, DisableSource, InUser
<1>5. CASE TrapEnter \/ HandleDone
  BY <1>5 DEF TrapEnter, HandleDone
<1>6. CASE HandleClaim
  BY <1>6 DEF HandleClaim, PlicClaim, Claimable
<1>7. CASE HandleFn \/ HandleComplete
  BY <1>7 DEF HandleFn, HandleComplete
<1>8. ASSUME NEW s \in Sources, DeviceRaises(s) \/ Gateway(s) PROVE EnableInv'
  BY <1>8 DEF DeviceRaises, Gateway
<1> QED
  BY <1>1, <1>2, <1>3, <1>4, <1>5, <1>6, <1>7, <1>8 DEF IrqNext, User, Trap

LEMMA TableStep == ASSUME IrqIInv, IrqNext PROVE TableInv'
<1> USE DEF IrqIInv, TableInv
<1>1. CASE IrqInit
  BY <1>1 DEF IrqInit, InUser
<1>2. CASE IrqRegisterCtx
  BY <1>2 DEF IrqRegisterCtx, IrqTypeOK, Handlers
<1>3. CASE SetThreshold \/ GlobalEnable \/ GlobalDisable
  BY <1>3 DEF SetThreshold, GlobalEnable, GlobalDisable, InUser
<1>4. ASSUME NEW s \in Sources, IrqRegister(s) PROVE TableInv'
  <2>1. PICK j \in 0..Regs : /\ handlers' = [handlers EXCEPT ![s].fn = j]
                             /\ reg' = [source |-> s, ctx |-> j]
    BY <1>4 DEF IrqRegister
  <2>2. reg.source = 0 /\ s # 0
    BY <1>4 DEF IrqRegister, InUser
  <2> QED
    BY <2>1, <2>2 DEF IrqTypeOK, Handlers
<1>5. ASSUME NEW s \in Sources, EnableSource(s) \/ DisableSource(s) \/ SetPriority(s)
      PROVE  TableInv'
  BY <1>5 DEF EnableSource, DisableSource, SetPriority, InUser
<1>6. CASE TrapEnter \/ HandleDone
  BY <1>6 DEF TrapEnter, HandleDone
<1>7. CASE HandleClaim \/ HandleFn \/ HandleComplete
  BY <1>7 DEF HandleClaim, HandleFn, HandleComplete
<1>8. ASSUME NEW s \in Sources, DeviceRaises(s) \/ Gateway(s) PROVE TableInv'
  BY <1>8 DEF DeviceRaises, Gateway
<1> QED
  BY <1>1, <1>2, <1>3, <1>4, <1>5, <1>6, <1>7, <1>8 DEF IrqNext, User, Trap

LEMMA IrqStepPreserves == IrqIInv /\ [IrqNext]_irqVars => IrqIInv'
<1> SUFFICES ASSUME IrqIInv, [IrqNext]_irqVars PROVE IrqIInv'
  OBVIOUS
<1>1. CASE IrqNext
  BY <1>1, IrqTypeStep, ClaimStep, EnableStep, TableStep DEF IrqIInv
<1>2. CASE UNCHANGED irqVars
  BY <1>2 DEF irqVars, IrqIInv, IrqTypeOK, EveryClaimCompleted, ClaimInv, EnableInv, TableInv
<1> QED
  BY <1>1, <1>2

-----------------------------------------------------------------------------

\* The inductive invariant holds in every reachable state.
THEOREM IrqInvariance == IrqSpec => []IrqIInv
  BY IrqInitEstablishes, IrqStepPreserves, PTL DEF IrqSpec

\* The variables of the interrupt path stay in their ranges, masked priorities
\* and thresholds included (plat_m_clint.c:148-156).
THEOREM IrqTypeCorrect == IrqSpec => []IrqTypeOK
<1>1. IrqIInv => IrqTypeOK
  BY DEF IrqIInv
<1> QED
  BY <1>1, IrqInvariance, PTL

\* Every claim is completed before the trap returns (irq.c:151-166); what the
\* previous stage left claimed stays so.
THEOREM EveryClaimCompletedHolds == IrqSpec => []EveryClaimCompleted
<1>1. IrqIInv => EveryClaimCompleted
  BY DEF IrqIInv
<1> QED
  BY <1>1, IrqInvariance, PTL

\* A handler is called with another one's context only in the middle of its own
\* irq_register, and only if the source was enabled before (irq.c:74-78,
\* 160-163); bits a previous stage left set never bring it about.
THEOREM NoTornHandlerHolds == IrqSpec => []NoTornHandler
<1>1. ASSUME IrqIInv PROVE NoTornHandler
  <2>1. SUFFICES ASSUME Torn PROVE src = reg.source /\ src \in asked
    BY DEF NoTornHandler
  <2>2. src \in asked /\ src \in Sources
    BY <1>1, <2>1 DEF IrqIInv, IrqTypeOK, EnableInv, Torn
  <2> QED
    BY <1>1, <2>1, <2>2 DEF IrqIInv, TableInv, Torn
<1> QED
  BY <1>1, IrqInvariance, PTL

\* Enabling a source never leaves it at priority 0 (plat_m_clint.c:134-142).
THEOREM EnableMakesDeliverableHolds == IrqSpec => EnableMakesDeliverable
<1>1. IrqIInv /\ [IrqNext]_irqVars =>
        [\A s \in Sources : (s \in enable' /\ s \notin enable) => prio'[s] > 0]_irqVars
  <2> SUFFICES ASSUME IrqIInv, IrqNext, NEW s \in Sources, s \in enable', s \notin enable
               PROVE  prio'[s] > 0
    OBVIOUS
  <2>1. PICK t \in Sources : EnableSource(t)
    BY DEF IrqNext, User, Trap, IrqInit, IrqRegisterCtx, SetThreshold, GlobalEnable,
       GlobalDisable, IrqRegister, DisableSource, SetPriority, TrapEnter, HandleClaim,
       HandleDone, HandleFn, HandleComplete, DeviceRaises, Gateway, plicRegs
  <2>2. t = s
    BY <2>1 DEF EnableSource
  <2> QED
    BY <2>1, <2>2 DEF EnableSource, IrqIInv, IrqTypeOK
<1> QED
  BY <1>1, IrqInvariance, PTL DEF IrqSpec, EnableMakesDeliverable

HIDE IrqAssumption

-----------------------------------------------------------------------------
(***************************************************************************)
(* The two rings of eth_rtl8169.c, for any depth of the rings and any      *)
(* number of frames: what the device put into the receive ring is handed   *)
(* over once and in order, and what eth_send accepted goes out in order.   *)
(*                                                                         *)
(* The argument for the receive ring.  Only one context is in eth_recv at  *)
(* a time (OneReceiver), which is where the program must not call eth_recv *)
(* with the handler attached.  From the slot where the next drain will     *)
(* look, the ring holds the frames accepted and not yet taken, in order,   *)
(* and after them only descriptors of the device (RxRing): the driver and  *)
(* the device agree about the ring although each keeps its own position.   *)
(* The transmit ring is the mirror image (TxInv).                          *)
(***************************************************************************)

USE EthAssumption

\* The slot k places after slot i.
Plus(i, k) == (i + k) % Depth

LEMMA PlusValue ==
  ASSUME NEW i \in Slots, NEW k \in 0..Depth
  PROVE  /\ Plus(i, k) = IF i + k < Depth THEN i + k ELSE i + k - Depth
         /\ Plus(i, k) \in Slots
<1>1. CASE i + k < Depth
  BY <1>1 DEF Plus, Slots
<1>2. CASE i + k >= Depth
  BY <1>2 DEF Plus, Slots
<1> QED
  BY <1>1, <1>2 DEF Slots

LEMMA SuccValue ==
  ASSUME NEW i \in Slots
  PROVE  Succ(i) = Plus(i, 1) /\ Succ(i) \in Slots /\ Plus(i, 0) = i /\ Plus(i, Depth) = i
<1>1. Succ(i) = Plus(i, 1)
  BY DEF Succ, Plus
<1>2. 1 \in 0..Depth /\ 0 \in 0..Depth /\ Depth \in 0..Depth /\ i \in 0..Depth-1
  BY DEF Slots
<1>3. Plus(i, 1) \in Slots
  BY <1>2, PlusValue
<1>4. Plus(i, 0) = i
  BY <1>2, PlusValue
<1>5. Plus(i, Depth) = IF i + Depth < Depth THEN i + Depth ELSE i + Depth - Depth
  BY <1>2, PlusValue
<1> QED
  BY <1>1, <1>2, <1>3, <1>4, <1>5

\* Slots that are less than a lap apart are different, and one step on
\* everything is one place nearer.
LEMMA PlusInjective ==
  ASSUME NEW i \in Slots, NEW j \in 0..Depth-1, NEW k \in 0..Depth-1, Plus(i, j) = Plus(i, k)
  PROVE  j = k
<1>1. Plus(i, j) = IF i + j < Depth THEN i + j ELSE i + j - Depth
  BY PlusValue
<1>2. Plus(i, k) = IF i + k < Depth THEN i + k ELSE i + k - Depth
  BY PlusValue
<1>3. i \in Int /\ 0 <= i /\ i < Depth /\ j \in Int /\ k \in Int
  BY DEF Slots
<1>4. (IF i + j < Depth THEN i + j ELSE i + j - Depth)
         = (IF i + k < Depth THEN i + k ELSE i + k - Depth)
  BY <1>1, <1>2, Zenon
<1> QED
  BY <1>3, <1>4

LEMMA PlusSucc ==
  ASSUME NEW i \in Slots, NEW k \in 0..Depth-1
  PROVE  Plus(Succ(i), k) = Plus(i, k + 1)
<1>1. k \in 0..Depth /\ k + 1 \in 0..Depth /\ 1 \in 0..Depth
  OBVIOUS
<1>2. Succ(i) = IF i + 1 < Depth THEN i + 1 ELSE i + 1 - Depth
  BY <1>1, PlusValue, SuccValue
<1>3. Plus(i, k + 1) = IF i + (k + 1) < Depth THEN i + (k + 1) ELSE i + (k + 1) - Depth
  BY <1>1, PlusValue
<1>4. Plus(Succ(i), k) = IF Succ(i) + k < Depth THEN Succ(i) + k ELSE Succ(i) + k - Depth
  BY <1>1, PlusValue, SuccValue
<1> QED
  BY <1>1, <1>2, <1>3, <1>4 DEF Slots

LEMMA SuccPlus ==
  ASSUME NEW i \in Slots, NEW k \in 0..Depth-1
  PROVE  Succ(Plus(i, k)) = Plus(i, k + 1)
<1>1. k \in 0..Depth /\ k + 1 \in 0..Depth /\ 1 \in 0..Depth
  OBVIOUS
<1>2. Plus(i, k) \in Slots /\ Plus(i, k) = IF i + k < Depth THEN i + k ELSE i + k - Depth
  BY <1>1, PlusValue
<1>3. Plus(i, k + 1) = IF i + (k + 1) < Depth THEN i + (k + 1) ELSE i + (k + 1) - Depth
  BY <1>1, PlusValue
<1>4. Succ(Plus(i, k)) = IF Plus(i, k) + 1 < Depth THEN Plus(i, k) + 1 ELSE Plus(i, k) + 1 - Depth
  BY <1>1, <1>2, PlusValue, SuccValue
<1> QED
  BY <1>2, <1>3, <1>4 DEF Slots

LEMMA AppendValue ==
  ASSUME NEW q \in Seq(Nat), NEW e \in Nat
  PROVE  /\ Append(q, e) \in Seq(Nat) /\ Len(q) \in Nat /\ Len(Append(q, e)) = Len(q) + 1
         /\ \A k \in 1..Len(q) : Append(q, e)[k] = q[k]
         /\ Append(q, e)[Len(q) + 1] = e
  OBVIOUS

-----------------------------------------------------------------------------
(***************************************************************************)
(* The transmit ring.                                                      *)
(***************************************************************************)

TxTypeOK ==
  /\ tx \in [Slots -> [own : BOOLEAN, frame : Nat]]
  /\ tx_head \in Slots /\ tx_dev \in Slots
  /\ send \in [pc : {"idle", "fill", "kick"}, idx : Slots]
  /\ queued \in Nat /\ wire \in Seq(Nat)

\* Frames in the ring that have not been sent.
Filled == IF send.pc = "fill" THEN queued - 1 ELSE queued
Unsent == Filled - Len(wire)

\* From the device's position on the ring holds exactly the frames not yet sent.
TxRing ==
  /\ Unsent \in 0..Depth
  /\ \A k \in 0..Depth-1 : tx[Plus(tx_dev, k)].own <=> k < Unsent
  /\ \A k \in 0..Depth-1 : k < Unsent => tx[Plus(tx_dev, k)].frame = Len(wire) + k + 1

\* eth_send fills the slot after them.
TxHead ==
  /\ send.pc # "kick" => tx_head = Plus(tx_dev, Unsent)
  /\ send.pc = "kick" => Succ(tx_head) = Plus(tx_dev, Unsent)
  /\ send.pc # "idle" => send.idx = tx_head
  /\ send.pc = "fill" => ~tx[tx_head].own

TxInv == TxTypeOK /\ TxRing /\ TxHead /\ (\A k \in 1..Len(wire) : wire[k] = k)

LEMMA TxInit == EthInit => TxInv
<1> SUFFICES ASSUME EthInit PROVE TxInv
  OBVIOUS
<1>1. /\ tx = [i \in Slots |-> [own |-> FALSE, frame |-> 0]] /\ tx_head = 0 /\ tx_dev = 0
      /\ send = [pc |-> "idle", idx |-> 0] /\ queued = 0 /\ wire = <<>>
  BY DEF EthInit
<1>2. 0 \in Slots /\ Len(wire) = 0 /\ wire \in Seq(Nat)
  BY <1>1 DEF Slots
<1>3. Unsent = 0 /\ Plus(0, 0) = 0
  BY <1>1, <1>2, SuccValue DEF Unsent, Filled
<1>4. \A k \in 0..Depth-1 : Plus(0, k) \in Slots
  BY <1>2, PlusValue
<1> QED
  BY <1>1, <1>2, <1>3, <1>4 DEF TxInv, TxTypeOK, TxRing, TxHead

\* The slot eth_send looks at is free only if the ring is not full.
LEMMA TxRoom ==
  ASSUME TxInv, send.pc # "kick", ~tx[tx_head].own
  PROVE  Unsent < Depth
<1>1. ASSUME Unsent = Depth PROVE FALSE
  <2>1. tx_head = tx_dev
    BY <1>1, SuccValue DEF TxInv, TxHead, TxTypeOK
  <2>2. tx[Plus(tx_dev, 0)].own
    BY <1>1 DEF TxInv, TxRing
  <2> QED
    BY <2>1, <2>2, SuccValue DEF TxInv, TxTypeOK
<1> QED
  BY <1>1 DEF TxInv, TxRing

\* eth_send takes the slot after the frames in the ring and fills it.
LEMMA TxSendCall ==
  ASSUME TxInv, SendCall
  PROVE  TxInv'
<1>1. /\ send.pc = "idle" /\ ~tx[tx_head].own
      /\ send' = [pc |-> "fill", idx |-> tx_head] /\ queued' = queued + 1
      /\ tx' = tx /\ tx_head' = tx_head /\ tx_dev' = tx_dev /\ wire' = wire
  BY DEF SendCall
<1>2. Unsent' = Unsent
  BY <1>1 DEF Unsent, Filled, TxInv, TxTypeOK
<1> QED
  BY <1>1, <1>2 DEF TxInv, TxTypeOK, TxRing, TxHead

LEMMA TxSendFill ==
  ASSUME TxInv, SendFill
  PROVE  TxInv'
<1> USE DEF TxInv, TxTypeOK
<1>1. /\ send.pc = "fill" /\ send.idx = tx_head /\ ~tx[tx_head].own
      /\ tx' = [tx EXCEPT ![tx_head] = [own |-> TRUE, frame |-> queued]]
      /\ send' = [send EXCEPT !.pc = "kick"]
      /\ tx_head' = tx_head /\ tx_dev' = tx_dev /\ wire' = wire /\ queued' = queued
  BY DEF SendFill, TxHead
<1>2. Unsent < Depth /\ Unsent \in 0..Depth-1
  BY <1>1, TxRoom DEF TxRing
<1>3. /\ Unsent' = Unsent + 1 /\ queued = Len(wire) + Unsent + 1 /\ Len(wire) \in Nat
      /\ send'.pc = "kick" /\ send'.idx = tx_head /\ send' \in [pc : {"idle", "fill", "kick"}, idx : Slots]
  <2>1. send'.pc = "kick" /\ send'.idx = tx_head /\ send' \in [pc : {"idle", "fill", "kick"}, idx : Slots]
    BY <1>1
  <2>2. Len(wire) \in Nat
    OBVIOUS
  <2>3. Unsent' = queued - Len(wire) /\ Unsent = queued - 1 - Len(wire)
    BY <1>1, <2>1 DEF Unsent, Filled
  <2> QED
    BY <2>1, <2>2, <2>3
<1>4. tx_head = Plus(tx_dev, Unsent)
  BY <1>1 DEF TxHead
<1>5. \A k \in 0..Depth-1 : Plus(tx_dev, k) \in Slots /\ (Plus(tx_dev, k) = tx_head <=> k = Unsent)
  <2> TAKE k \in 0..Depth-1
  <2>1. Plus(tx_dev, k) \in Slots
    BY PlusValue
  <2>2. Plus(tx_dev, k) = Plus(tx_dev, Unsent) => k = Unsent
    BY <1>2, PlusInjective
  <2> QED
    BY <1>4, <2>1, <2>2
<1>6. \A k \in 0..Depth-1 :
        tx'[Plus(tx_dev, k)] = IF k = Unsent THEN [own |-> TRUE, frame |-> queued]
                               ELSE tx[Plus(tx_dev, k)]
  BY <1>1, <1>5
<1>7. TxTypeOK'
  BY <1>1, <1>3
<1>8. TxRing'
  <2>1. Unsent' \in 0..Depth
    BY <1>2, <1>3
  <2>2. \A k \in 0..Depth-1 : tx'[Plus(tx_dev, k)].own <=> k < Unsent + 1
    <3> SUFFICES ASSUME NEW k \in 0..Depth-1
                 PROVE  tx'[Plus(tx_dev, k)].own <=> k < Unsent + 1
      OBVIOUS
    <3>1. CASE k = Unsent
      BY <1>2, <1>6, <3>1
    <3>2. CASE k # Unsent
      <4>1. tx'[Plus(tx_dev, k)] = tx[Plus(tx_dev, k)] /\ (tx[Plus(tx_dev, k)].own <=> k < Unsent)
        BY <1>6, <3>2 DEF TxRing
      <4> QED
        BY <1>2, <3>2, <4>1
    <3> QED
      BY <3>1, <3>2
  <2>3. \A k \in 0..Depth-1 : k < Unsent + 1 => tx'[Plus(tx_dev, k)].frame = Len(wire) + k + 1
    <3> SUFFICES ASSUME NEW k \in 0..Depth-1, k < Unsent + 1
                 PROVE  tx'[Plus(tx_dev, k)].frame = Len(wire) + k + 1
      OBVIOUS
    <3>1. CASE k = Unsent
      BY <1>3, <1>6, <3>1
    <3>2. CASE k # Unsent
      BY <1>2, <1>6, <3>2 DEF TxRing
    <3> QED
      BY <3>1, <3>2
  <2> QED
    BY <1>1, <1>3, <2>1, <2>2, <2>3 DEF TxRing
<1>9. Succ(tx_head) = Plus(tx_dev, Unsent + 1)
  BY <1>2, <1>4, SuccPlus
<1>10. TxHead'
  BY <1>1, <1>3, <1>9 DEF TxHead
<1> QED
  BY <1>1, <1>7, <1>8, <1>10

LEMMA TxSendKick ==
  ASSUME TxInv, SendKick
  PROVE  TxInv'
<1> USE DEF TxInv, TxTypeOK
<1>1. /\ send.pc = "kick" /\ send.idx = tx_head /\ tx_head' = Succ(tx_head)
      /\ send' = [pc |-> "idle", idx |-> 0]
      /\ tx' = tx /\ tx_dev' = tx_dev /\ wire' = wire /\ queued' = queued
  BY DEF SendKick, TxHead
<1>2. Unsent' = Unsent /\ send' \in [pc : {"idle", "fill", "kick"}, idx : Slots]
  BY <1>1 DEF Unsent, Filled, Slots
<1>3. TxTypeOK'
  BY <1>1, <1>2, SuccValue
<1> QED
  BY <1>1, <1>2, <1>3 DEF TxRing, TxHead

\* The device sends the oldest frame and moves on.
LEMMA TxDevice ==
  ASSUME TxInv, DeviceTx
  PROVE  TxInv'
<1> USE DEF TxInv, TxTypeOK
<1>1. send' = send /\ tx_head' = tx_head /\ queued' = queued
  BY DEF DeviceTx
<1>2. CASE ~tx[tx_dev].own
  <2>1. tx' = tx /\ wire' = wire /\ tx_dev' = tx_dev
    BY <1>2 DEF DeviceTx
  <2> QED
    BY <1>1, <2>1 DEF TxRing, TxHead, Unsent, Filled
<1>3. CASE tx[tx_dev].own
  <2>1. /\ tx' = [tx EXCEPT ![tx_dev].own = FALSE]
        /\ wire' = Append(wire, tx[tx_dev].frame) /\ tx_dev' = Succ(tx_dev)
    BY <1>3 DEF DeviceTx
  <2>2. Plus(tx_dev, 0) = tx_dev /\ Succ(tx_dev) \in Slots
    BY SuccValue
  <2>3. 0 < Unsent /\ tx[tx_dev].frame = Len(wire) + 1 /\ Len(wire) \in Nat
    BY <1>3, <2>2 DEF TxRing
  <2>4. /\ wire' \in Seq(Nat) /\ Len(wire') = Len(wire) + 1 /\ Unsent' = Unsent - 1
        /\ \A k \in 1..Len(wire') : wire'[k] = k
    <3>1. /\ wire \in Seq(Nat) /\ tx[tx_dev].frame \in Nat /\ Filled \in Int /\ Filled' = Filled
          /\ \A k \in 1..Len(wire) : wire[k] = k
      BY <1>1, <2>3 DEF Filled
    <3> HIDE DEF TxInv, TxTypeOK
    <3>2. /\ wire' \in Seq(Nat) /\ Len(wire') = Len(wire) + 1
          /\ \A k \in 1..Len(wire) : wire'[k] = wire[k]
          /\ wire'[Len(wire) + 1] = Len(wire) + 1
      BY <2>1, <2>3, <3>1, AppendValue
    <3>3. \A k \in 1..Len(wire') : k \in 1..Len(wire) \/ k = Len(wire) + 1
      BY <2>3, <3>2
    <3>4. Unsent' = Unsent - 1
      BY <2>3, <3>1, <3>2 DEF Unsent
    <3>5. \A k \in 1..Len(wire') : wire'[k] = k
      BY <3>1, <3>2, <3>3, Zenon
    <3> QED
      BY <3>2, <3>4, <3>5
  <2>5. TxTypeOK'
    BY <1>1, <2>1, <2>2, <2>4
  <2>6. \A k \in 0..Depth-1 :
          LET old == Plus(tx_dev, k + 1) IN
          /\ Plus(tx_dev', k) = old /\ old \in Slots
          /\ k < Depth - 1 => tx'[old] = tx[old]
          /\ k = Depth - 1 => ~tx'[old].own
    <3> TAKE k \in 0..Depth-1
    <3>1. Plus(tx_dev', k) = Plus(tx_dev, k + 1) /\ k + 1 \in 0..Depth
      BY <2>1, PlusSucc
    <3>2. Plus(tx_dev, k + 1) \in Slots
      BY <3>1, PlusValue
    <3>3. CASE k < Depth - 1
      <4>1. Plus(tx_dev, k + 1) # Plus(tx_dev, 0)
        BY <3>3, PlusInjective
      <4> QED
        BY <2>1, <2>2, <3>1, <3>2, <3>3, <4>1
    <3>4. CASE k = Depth - 1
      BY <2>1, <3>1, <3>2, <3>4, SuccValue
    <3> QED
      BY <3>1, <3>2, <3>3, <3>4
  <2>7. TxRing'
    <3>0. TxRing /\ Unsent \in Int
      BY DEF TxRing
    <3> HIDE DEF TxInv, TxTypeOK
    <3>1. Unsent' \in 0..Depth
      BY <2>3, <2>4, <3>0 DEF TxRing
    <3>2. ASSUME NEW k \in 0..Depth-1
          PROVE  /\ tx'[Plus(tx_dev', k)].own <=> k < Unsent'
                 /\ k < Unsent' => tx'[Plus(tx_dev', k)].frame = Len(wire') + k + 1
      <4>1. CASE k < Depth - 1
        <5>1. tx'[Plus(tx_dev', k)] = tx[Plus(tx_dev, k + 1)] /\ k + 1 \in 0..Depth-1
          <6>1. k + 1 \in 0..Depth-1
            BY <4>1
          <6> QED
            BY <4>1, <2>6, <6>1, Zenon
        <5>2. /\ tx[Plus(tx_dev, k + 1)].own <=> k + 1 < Unsent
              /\ k + 1 < Unsent => tx[Plus(tx_dev, k + 1)].frame = Len(wire) + (k + 1) + 1
          BY <3>0, <5>1 DEF TxRing
        <5>3. (k < Unsent' <=> k + 1 < Unsent) /\ Len(wire') + k + 1 = Len(wire) + (k + 1) + 1
          BY <2>3, <2>4, <3>0
        <5> QED
          BY <5>1, <5>2, <5>3, Zenon
      <4>2. CASE k = Depth - 1
        <5>1. ~tx'[Plus(tx_dev', k)].own
          BY <2>6, <4>2, Zenon
        <5>2. ~(k < Unsent')
          BY <2>3, <2>4, <3>0, <4>2 DEF TxRing
        <5> QED
          BY <5>1, <5>2
      <4> QED
        BY <4>1, <4>2
    <3> QED
      BY <3>1, <3>2 DEF TxRing
  <2>8. Plus(tx_dev', Unsent') = Plus(tx_dev, Unsent)
    <3>1. Unsent - 1 \in 0..Depth-1 /\ (Unsent - 1) + 1 = Unsent
      BY <2>3 DEF TxRing
    <3>2. Plus(Succ(tx_dev), Unsent - 1) = Plus(tx_dev, (Unsent - 1) + 1)
      BY <3>1, PlusSucc
    <3> QED
      BY <2>1, <2>4, <3>1, <3>2
  <2>9. send.pc = "fill" => ~tx'[tx_head].own
    BY <1>3, <2>1 DEF TxHead
  <2> QED
    BY <1>1, <2>4, <2>5, <2>7, <2>8, <2>9 DEF TxHead
<1> QED
  BY <1>2, <1>3

LEMMA TxStep ==
  ASSUME TxInv, [EthNext]_ethVars
  PROVE  TxInv'
<1>1. ASSUME UNCHANGED txVars PROVE TxInv'
  BY <1>1 DEF txVars, TxInv, TxTypeOK, TxRing, TxHead, Unsent, Filled
<1>2. CASE NetPoll \/ AttachCall \/ AttachStep \/ IrqEnter \/ IrqAck \/ DeviceRx
  BY <1>1, <1>2 DEF NetPoll, AttachCall, AttachStep, IrqEnter, IrqAck, DeviceRx
<1>3. ASSUME NEW c \in Contexts, RecvStep(c) PROVE TxInv'
  BY <1>1, <1>3 DEF RecvStep, RecvLoad, RecvCopy, RecvRearm, RecvHead
<1>4. CASE UNCHANGED ethVars
  BY <1>1, <1>4 DEF ethVars
<1> QED
  BY <1>2, <1>3, <1>4, TxSendCall, TxSendFill, TxSendKick, TxDevice
     DEF EthNext, Thread, Handler, Contexts

\* Frames go out in the order in which eth_send accepted them, none lost and
\* none twice, whatever the device and the interrupt handler do meanwhile
\* (eth_rtl8169.c, eth_send), for every depth of the ring.
THEOREM SentInOrderHolds == EthSpec => []SentInOrder
<1>1. TxInv => SentInOrder
  <2> SUFFICES ASSUME TxInv PROVE Len(wire) <= queued
    BY DEF TxInv, SentInOrder
  <2>1. Len(wire) \in Nat /\ queued \in Nat /\ Unsent >= 0
    BY DEF TxInv, TxTypeOK, TxRing
  <2> QED
    BY <2>1 DEF Unsent, Filled
<1> QED
  BY <1>1, TxInit, TxStep, PTL DEF EthSpec

-----------------------------------------------------------------------------
(***************************************************************************)
(* The receive ring.                                                       *)
(***************************************************************************)

RecvSteps == {"idle", "ack", "load", "copy", "rearm", "head"}

RxTypeOK ==
  /\ rx \in [Slots -> [own : BOOLEAN, frame : Nat]]
  /\ rx_head \in Slots /\ rx_dev \in Slots
  /\ recv \in [Contexts -> [pc : RecvSteps, idx : Slots, frame : Nat]]
  /\ arrived \in Nat /\ accepted \in Seq(Nat) /\ delivered \in Seq(Nat)

\* The program polls until it attaches the handler, and not again.
OneReceiver ==
  /\ recv["thread"].pc # "idle" => attach = "no"
  /\ recv["irq"].pc # "idle" => attach = "yes"

\* A frame is taken out of the ring and not yet handed over.
Taking == \E c \in Contexts : recv[c].pc = "head"
Taken == Len(delivered) + (IF Taking THEN 1 ELSE 0)
Waiting == Len(accepted) - Taken

\* From where the next drain will look, the ring holds the frames that wait,
\* in order, and then descriptors the device owns; the device is at the first.
RxRing ==
  /\ Waiting \in 0..Depth
  /\ rx_dev = Plus(NextHead, Waiting)
  /\ \A k \in 0..Depth-1 : rx[Plus(NextHead, k)].own <=> k >= Waiting
  /\ \A k \in 0..Depth-1 : k < Waiting => rx[Plus(NextHead, k)].frame = accepted[Taken + k + 1]

\* How far a call of eth_recv has come with the descriptor at rx_head.
RxCall ==
  \A c \in Contexts :
    /\ recv[c].pc \in {"copy", "rearm", "head"} => recv[c].idx = rx_head
    /\ recv[c].pc \in {"copy", "rearm"} => ~rx[rx_head].own
    /\ recv[c].pc = "rearm" => recv[c].frame = rx[rx_head].frame
    /\ recv[c].pc = "head" => recv[c].frame = accepted[Len(delivered) + 1]

RxHanded == \A k \in 1..Len(delivered) : delivered[k] = accepted[k]

\* The device numbers the frames as they arrive.
RxArrived ==
  /\ \A k \in 1..Len(accepted) : accepted[k] <= arrived
  /\ \A j, k \in 1..Len(accepted) : j < k => accepted[j] < accepted[k]

RxInv == RxTypeOK /\ OneReceiver /\ RxRing /\ RxCall /\ RxHanded /\ RxArrived

LEMMA TakenValue ==
  /\ Taking => Taken = Len(delivered) + 1
  /\ ~Taking => Taken = Len(delivered) + 0
  BY Zenon DEF Taken

LEMMA TakenType == RxTypeOK => Taken \in Nat
<1> SUFFICES ASSUME RxTypeOK PROVE Taken \in Nat
  OBVIOUS
<1>1. Len(delivered) \in Nat
  BY DEF RxTypeOK
<1> QED
  BY <1>1, TakenValue

LEMMA RxInit == EthInit => RxInv
<1> SUFFICES ASSUME EthInit PROVE RxInv
  OBVIOUS
<1>1. /\ rx = [i \in Slots |-> [own |-> TRUE, frame |-> 0]]
      /\ rx_head = 0 /\ rx_dev = 0 /\ attach = "no" /\ recv = [c \in Contexts |-> Idle]
      /\ arrived = 0 /\ accepted = <<>> /\ delivered = <<>>
  BY DEF EthInit
<1>2. 0 \in Slots /\ Len(accepted) = 0 /\ Len(delivered) = 0
  BY <1>1 DEF Slots
<1>3. ~Taking /\ NextHead = 0 /\ Taken = 0 /\ Waiting = 0
  <2>1. ~Taking
    BY <1>1 DEF Taking, Idle
  <2>2. NextHead = 0
    BY <1>1, <2>1 DEF NextHead, Taking
  <2> QED
    BY <1>1, <1>2, <2>1, <2>2, TakenValue DEF Waiting
<1>4. \A k \in 0..Depth-1 : Plus(0, k) \in Slots
  BY <1>2, PlusValue
<1>5. RxTypeOK
  BY <1>1, <1>2 DEF RxTypeOK, RecvSteps, Idle
<1>6. RxRing
  BY <1>1, <1>2, <1>3, <1>4, SuccValue DEF RxRing
<1>7. OneReceiver /\ RxCall /\ RxHanded /\ RxArrived
  BY <1>1, <1>2 DEF OneReceiver, RxCall, RxHanded, RxArrived, Idle, Contexts
<1> QED
  BY <1>5, <1>6, <1>7 DEF RxInv

\* While one context is in eth_recv the other is not.
LEMMA Alone ==
  ASSUME OneReceiver, NEW c \in Contexts, recv[c].pc # "idle", NEW d \in Contexts, d # c
  PROVE  recv[d].pc = "idle"
  BY DEF OneReceiver, Contexts

LEMMA NextHeadValue == NextHead = IF Taking THEN Succ(rx_head) ELSE rx_head
  BY DEF NextHead, Taking

\* Nothing but recv and attach changes, and nobody takes or hands over a frame.
LEMMA RxQuiet ==
  ASSUME RxInv, UNCHANGED <<rx, rx_head, rx_dev, arrived, accepted, delivered>>,
         recv' \in [Contexts -> [pc : RecvSteps, idx : Slots, frame : Nat]],
         \A c \in Contexts : recv'[c].pc = "head" <=> recv[c].pc = "head",
         OneReceiver', RxCall'
  PROVE  RxInv'
<1>1. Taking' <=> Taking
  BY DEF Taking
<1>2. NextHead' = NextHead /\ Taken' = Taken /\ Waiting' = Waiting
  BY <1>1, NextHeadValue DEF NextHead, Taking, Taken, Waiting
<1> QED
  BY <1>2 DEF RxInv, RxTypeOK, RxRing, RxHanded, RxArrived

\* A context begins a drain, or the handler its acknowledgement.
LEMMA RxStarts ==
  ASSUME RxInv, NEW c \in Contexts, NEW p \in {"ack", "load"}, recv[c].pc \in {"idle", "ack"},
         recv' = [recv EXCEPT ![c].pc = p], OneReceiver',
         UNCHANGED <<rx, rx_head, rx_dev, arrived, accepted, delivered>>
  PROVE  RxInv'
<1>1. recv \in [Contexts -> [pc : RecvSteps, idx : Slots, frame : Nat]]
  BY DEF RxInv, RxTypeOK
<1>2. recv' \in [Contexts -> [pc : RecvSteps, idx : Slots, frame : Nat]]
  BY <1>1 DEF RecvSteps
<1>3. recv'[c].pc = p /\ \A d \in Contexts : d # c => recv'[d] = recv[d]
  BY <1>1
<1>4. \A d \in Contexts : recv'[d].pc = "head" <=> recv[d].pc = "head"
  BY <1>3
<1>5. RxCall'
  BY <1>3 DEF RxInv, RxCall
<1> QED
  BY <1>2, <1>4, <1>5, RxQuiet

\* The calls that start a drain, and the handler before its drain.
LEMMA RxCalls ==
  ASSUME RxInv, ~PollAfterAttach,
         NetPoll \/ AttachCall \/ AttachStep \/ IrqEnter \/ IrqAck
  PROVE  RxInv'
<1>1. /\ OneReceiver /\ RxCall /\ "thread" \in Contexts /\ "irq" \in Contexts
      /\ recv \in [Contexts -> [pc : RecvSteps, idx : Slots, frame : Nat]]
  BY DEF RxInv, RxTypeOK, Contexts
<1>2. CASE NetPoll
  <2>1. /\ recv' = [recv EXCEPT !["thread"].pc = "load"] /\ recv["thread"].pc = "idle"
        /\ attach = "no" /\ attach' = attach
        /\ UNCHANGED <<rx, rx_head, rx_dev, arrived, accepted, delivered>>
    BY <1>2 DEF NetPoll
  <2>2. recv'["irq"] = recv["irq"]
    BY <1>1, <2>1
  <2>3. OneReceiver'
    BY <1>1, <2>1, <2>2 DEF OneReceiver
  <2> QED
    BY <1>1, <2>1, <2>3, RxStarts
<1>3. CASE AttachCall \/ AttachStep
  <2>1. recv["thread"].pc = "idle" /\ recv["irq"].pc = "idle"
    BY <1>1, <1>3 DEF AttachCall, AttachStep, OneReceiver
  <2>2. UNCHANGED <<rx, rx_head, rx_dev, recv, arrived, accepted, delivered>>
    BY <1>3 DEF AttachCall, AttachStep
  <2>3. OneReceiver' /\ RxCall'
    BY <1>1, <2>1, <2>2 DEF OneReceiver, RxCall
  <2> QED
    BY <1>1, <2>2, <2>3, RxQuiet
<1>4. CASE IrqEnter \/ IrqAck
  <2>1. PICK p \in {"ack", "load"} : recv' = [recv EXCEPT !["irq"].pc = p]
    BY <1>4 DEF IrqEnter, IrqAck
  <2>2. /\ recv["irq"].pc \in {"idle", "ack"} /\ attach = "yes" /\ attach' = attach
        /\ UNCHANGED <<rx, rx_head, rx_dev, arrived, accepted, delivered>>
    BY <1>1, <1>4 DEF IrqEnter, IrqAck, OneReceiver
  <2>3. recv'["thread"] = recv["thread"]
    BY <1>1, <2>1
  <2>4. OneReceiver'
    BY <1>1, <2>2, <2>3 DEF OneReceiver
  <2> QED
    BY <1>1, <2>1, <2>2, <2>4, RxStarts
<1> QED
  BY <1>2, <1>3, <1>4

\* The flags are read and the buffer is copied: the descriptor stays the driver's.
LEMMA RxLoadCopy ==
  ASSUME RxInv, NEW c \in Contexts, RecvLoad(c) \/ RecvCopy(c)
  PROVE  RxInv'
<1> USE DEF RxInv, RxTypeOK, RecvSteps
<1>1. CASE RecvLoad(c)
  <2>1. /\ recv' = [recv EXCEPT ![c] = IF rx[rx_head].own THEN Idle
                                       ELSE [Idle EXCEPT !.pc = "copy", !.idx = rx_head]]
        /\ recv[c].pc = "load"
        /\ UNCHANGED <<rx, rx_head, rx_dev, attach, arrived, accepted, delivered>>
    BY <1>1 DEF RecvLoad
  <2>2. 0 \in Slots
    BY DEF Slots
  <2>3. recv' \in [Contexts -> [pc : RecvSteps, idx : Slots, frame : Nat]]
    BY <2>1, <2>2 DEF Idle
  <2>4. /\ \A d \in Contexts : d # c => recv'[d] = recv[d]
        /\ recv'[c].pc \in {"idle", "copy"}
        /\ recv'[c].pc = "copy" => recv'[c].idx = rx_head /\ ~rx[rx_head].own
    BY <2>1 DEF Idle
  <2>5. OneReceiver' /\ RxCall'
    BY <2>1, <2>4 DEF OneReceiver, RxCall, Contexts
  <2>6. \A d \in Contexts : recv'[d].pc = "head" <=> recv[d].pc = "head"
    BY <2>1, <2>4
  <2> QED
    BY <2>1, <2>3, <2>5, <2>6, RxQuiet
<1>2. CASE RecvCopy(c)
  <2>1. /\ recv' = [recv EXCEPT ![c] = [@ EXCEPT !.frame = rx[rx_head].frame, !.pc = "rearm"]]
        /\ recv[c].pc = "copy" /\ recv[c].idx = rx_head /\ ~rx[rx_head].own
        /\ UNCHANGED <<rx, rx_head, rx_dev, attach, arrived, accepted, delivered>>
    BY <1>2 DEF RecvCopy, RxCall
  <2>2. /\ recv'[c].pc = "rearm" /\ recv'[c].idx = rx_head /\ recv'[c].frame = rx[rx_head].frame
        /\ \A d \in Contexts : d # c => recv'[d] = recv[d]
    BY <2>1
  <2>3. recv' \in [Contexts -> [pc : RecvSteps, idx : Slots, frame : Nat]]
    <3>1. recv[c] \in [pc : RecvSteps, idx : Slots, frame : Nat] /\ rx[rx_head].frame \in Nat
      OBVIOUS
    <3>2. [recv[c] EXCEPT !.frame = rx[rx_head].frame, !.pc = "rearm"]
            \in [pc : RecvSteps, idx : Slots, frame : Nat]
      BY <3>1
    <3>3. recv \in [Contexts -> [pc : RecvSteps, idx : Slots, frame : Nat]]
      OBVIOUS
    <3> HIDE DEF RxInv, RxTypeOK, RecvSteps
    <3> QED
      BY <2>1, <3>2, <3>3
  <2>4. /\ \A d \in Contexts : recv'[d].pc = "head" <=> recv[d].pc = "head"
        /\ OneReceiver' /\ RxCall'
    BY <2>1, <2>2 DEF OneReceiver, RxCall, Contexts
  <2> QED
    BY <2>1, <2>3, <2>4, RxQuiet
<1> QED
  BY <1>1, <1>2

\* The descriptor goes back to the device: what the ring holds now starts one
\* slot further on, and the frame is in the receiver's hands.
LEMMA RxRearm ==
  ASSUME RxInv, NEW c \in Contexts, RecvRearm(c)
  PROVE  RxInv'
<1> USE DEF RxInv, RxTypeOK
<1>1. /\ recv[c].pc = "rearm" /\ ~rx[rx_head].own /\ recv[c].frame = rx[rx_head].frame
      /\ recv[c].idx = rx_head
      /\ rx' = [rx EXCEPT ![rx_head].own = TRUE] /\ recv' = [recv EXCEPT ![c].pc = "head"]
      /\ UNCHANGED <<rx_head, rx_dev, attach, arrived, accepted, delivered>>
  BY DEF RecvRearm, RxCall
<1>2. ~Taking /\ Taking'
  BY <1>1, Alone DEF Taking
<1>3. /\ NextHead = rx_head /\ NextHead' = Succ(rx_head)
      /\ Taken = Len(delivered) /\ Taken' = Taken + 1 /\ Waiting' = Waiting - 1
      /\ Len(delivered) \in Nat /\ Len(accepted) \in Nat
  <2>1. NextHead = rx_head /\ NextHead' = Succ(rx_head)
    BY <1>1, <1>2 DEF NextHead, Taking
  <2>2. Len(delivered) \in Nat /\ Len(accepted) \in Nat
    OBVIOUS
  <2>3. Taken = Len(delivered) + 0 /\ Taken' = Len(delivered') + 1
    BY <1>2, Zenon DEF Taken
  <2> QED
    BY <1>1, <2>1, <2>2, <2>3 DEF Waiting
<1>4. Plus(rx_head, 0) = rx_head /\ Succ(rx_head) \in Slots
  BY SuccValue
<1>5. Waiting \in 1..Depth /\ rx[rx_head].frame = accepted[Len(delivered) + 1]
  <2>1. 0 \in 0..Depth-1 /\ Plus(NextHead, 0) = rx_head /\ Taken + 0 + 1 = Len(delivered) + 1
    BY <1>3, <1>4
  <2>2. ~(0 >= Waiting) /\ Waiting \in 0..Depth
    BY <1>1, <2>1 DEF RxRing
  <2>3. 0 < Waiting => rx[Plus(NextHead, 0)].frame = accepted[Taken + 0 + 1]
    BY <2>1 DEF RxRing
  <2> QED
    BY <2>1, <2>2, <2>3
<1>6. \A k \in 0..Depth-1 :
        LET old == Plus(rx_head, k + 1) IN
        /\ Plus(NextHead', k) = old /\ old \in Slots
        /\ k < Depth - 1 => rx'[old] = rx[old]
        /\ k = Depth - 1 => rx'[old].own
  <2> TAKE k \in 0..Depth-1
  <2>1. Plus(NextHead', k) = Plus(rx_head, k + 1) /\ k + 1 \in 0..Depth
    BY <1>3, PlusSucc
  <2>2. Plus(rx_head, k + 1) \in Slots
    BY <2>1, PlusValue
  <2>3. CASE k < Depth - 1
    <3>1. Plus(rx_head, k + 1) # Plus(rx_head, 0)
      BY <2>3, PlusInjective
    <3> QED
      BY <1>1, <1>4, <2>1, <2>2, <2>3, <3>1
  <2>4. CASE k = Depth - 1
    BY <1>1, <2>1, <2>2, <2>4, SuccValue
  <2> QED
    BY <2>1, <2>2, <2>3, <2>4
<1>7. RxTypeOK'
  <2>1. rx' \in [Slots -> [own : BOOLEAN, frame : Nat]]
    BY <1>1
  <2>2. recv' \in [Contexts -> [pc : RecvSteps, idx : Slots, frame : Nat]]
    BY <1>1 DEF RecvSteps
  <2> QED
    BY <1>1, <2>1, <2>2
<1>8. RxRing'
  <2>1. Waiting' \in 0..Depth
    BY <1>3, <1>5
  <2>2. rx_dev' = Plus(NextHead', Waiting')
    <3>1. Waiting - 1 \in 0..Depth-1 /\ (Waiting - 1) + 1 = Waiting
      BY <1>5
    <3>2. Plus(Succ(rx_head), Waiting - 1) = Plus(rx_head, (Waiting - 1) + 1)
      BY <3>1, PlusSucc
    <3> QED
      BY <1>1, <1>3, <3>1, <3>2 DEF RxRing
  <2>3. ASSUME NEW k \in 0..Depth-1
        PROVE  /\ rx'[Plus(NextHead', k)].own <=> k >= Waiting'
               /\ k < Waiting' => rx'[Plus(NextHead', k)].frame = accepted'[Taken' + k + 1]
    <3>1. CASE k < Depth - 1
      <4>0. k + 1 \in 0..Depth-1
        BY <3>1
      <4>1. rx'[Plus(NextHead', k)] = rx[Plus(rx_head, k + 1)] /\ k + 1 \in 0..Depth-1
        BY <3>1, <4>0, <1>6, Zenon
      <4>2. Taken' + k + 1 = Taken + (k + 1) + 1
        BY <1>3
      <4>3. /\ rx[Plus(NextHead, k + 1)].own <=> k + 1 >= Waiting
            /\ k + 1 < Waiting => rx[Plus(NextHead, k + 1)].frame = accepted[Taken + (k + 1) + 1]
        BY <4>1 DEF RxRing
      <4>4. (k + 1 >= Waiting <=> k >= Waiting') /\ (k + 1 < Waiting <=> k < Waiting')
        BY <1>3, <1>5
      <4> QED
        BY <1>1, <1>3, <4>1, <4>2, <4>3, <4>4
    <3>2. CASE k = Depth - 1
      <4>1. k >= Waiting' /\ ~(k < Waiting')
        BY <1>3, <1>5, <3>2
      <4>2. rx'[Plus(NextHead', k)].own
        BY <1>6, <3>2
      <4> QED
        BY <4>1, <4>2
    <3>3. k < Depth - 1 \/ k = Depth - 1
      OBVIOUS
    <3> QED
      BY <3>1, <3>2, <3>3, Zenon
  <2> QED
    BY <2>1, <2>2, <2>3 DEF RxRing
<1>9. OneReceiver' /\ RxHanded' /\ RxArrived'
  BY <1>1 DEF OneReceiver, RxHanded, RxArrived, Contexts
<1>10. RxCall'
  <2>1. \A d \in Contexts : d # c => recv'[d].pc = "idle"
    BY <1>1, Alone
  <2>2. recv'[c].pc = "head" /\ recv'[c].idx = rx_head /\ recv'[c].frame = rx[rx_head].frame
    BY <1>1
  <2> QED
    BY <1>1, <1>5, <2>1, <2>2 DEF RxCall
<1> QED
  BY <1>7, <1>8, <1>9, <1>10

\* The frame is handed over and rx_head moves to where the ring begins.
LEMMA RxHead ==
  ASSUME RxInv, NEW c \in Contexts, RecvHead(c)
  PROVE  RxInv'
<1> USE DEF RxInv, RxTypeOK
<1>1. /\ recv[c].pc = "head" /\ recv[c].idx = rx_head
      /\ recv[c].frame = accepted[Len(delivered) + 1]
      /\ rx_head' = Succ(rx_head) /\ delivered' = Append(delivered, accepted[Len(delivered) + 1])
      /\ recv' = [recv EXCEPT ![c] = [Idle EXCEPT !.pc = "load"]]
      /\ UNCHANGED <<rx, rx_dev, attach, arrived, accepted>>
  BY DEF RecvHead, RxCall
<1>2. Taking /\ ~Taking'
  BY <1>1, Alone DEF Taking, Idle
<1>3. /\ Len(delivered) \in Nat /\ delivered' \in Seq(Nat) /\ Len(delivered') = Len(delivered) + 1
      /\ \A k \in 1..Len(delivered') :
           delivered'[k] = IF k = Len(delivered) + 1 THEN accepted[k] ELSE delivered[k]
  <2>1. accepted[Len(delivered) + 1] \in Nat /\ delivered \in Seq(Nat)
    BY <1>1
  <2>2. delivered' = Append(delivered, accepted[Len(delivered) + 1])
    BY <1>1
  <2> HIDE DEF RxInv, RxTypeOK
  <2>3. /\ delivered' \in Seq(Nat) /\ Len(delivered) \in Nat
        /\ Len(delivered') = Len(delivered) + 1
        /\ \A k \in 1..Len(delivered) : delivered'[k] = delivered[k]
        /\ delivered'[Len(delivered) + 1] = accepted[Len(delivered) + 1]
    BY <2>1, <2>2, AppendValue
  <2>4. \A k \in 1..Len(delivered') : k # Len(delivered) + 1 => k \in 1..Len(delivered)
    BY <2>3
  <2> QED
    BY <2>3, <2>4
<1>4. NextHead' = NextHead /\ Taken' = Taken /\ Waiting' = Waiting
  <2>1. NextHead = Succ(rx_head) /\ NextHead' = Succ(rx_head)
    BY <1>1, <1>2 DEF NextHead, Taking
  <2>2. Taken = Len(delivered) + 1
    BY <1>2, TakenValue
  <2>3. Taken' = Len(delivered') + 0
    BY <1>2 DEF Taken
  <2> QED
    BY <1>1, <1>3, <2>1, <2>2, <2>3 DEF Waiting
<1>5. RxTypeOK'
  <2>1. 0 \in Slots
    BY DEF Slots
  <2>2. recv' \in [Contexts -> [pc : RecvSteps, idx : Slots, frame : Nat]]
    BY <1>1, <2>1 DEF Idle, RecvSteps
  <2>3. rx_head' \in Slots
    BY <1>1, SuccValue
  <2> QED
    BY <1>1, <1>3, <2>2, <2>3
<1>6. RxRing'
  BY <1>1, <1>4 DEF RxRing
<1>7. RxHanded'
  <2>1. accepted' = accepted /\ RxHanded
    BY <1>1
  <2> HIDE DEF RxInv, RxTypeOK
  <2>2. \A k \in 1..Len(delivered') : k # Len(delivered) + 1 => k \in 1..Len(delivered)
    BY <1>3
  <2> QED
    BY <1>3, <2>1, <2>2 DEF RxHanded
<1>8. RxCall' /\ OneReceiver' /\ RxArrived'
  <2>1. \A d \in Contexts : d # c => recv'[d].pc = "idle" /\ recv[d].pc = "idle"
    BY <1>1, Alone
  <2>2. recv'[c].pc = "load"
    BY <1>1 DEF Idle
  <2> QED
    BY <1>1, <2>1, <2>2 DEF RxCall, OneReceiver, RxArrived, Contexts
<1> QED
  BY <1>5, <1>6, <1>7, <1>8

\* The device fills the slot after the frames that wait, or drops the frame.
LEMMA RxDevice ==
  ASSUME RxInv, DeviceRx
  PROVE  RxInv'
<1> USE DEF RxInv, RxTypeOK
<1>1. arrived' = arrived + 1 /\ UNCHANGED <<rx_head, attach, recv, delivered>>
  BY DEF DeviceRx
<1>2. Len(delivered) \in Nat /\ Len(accepted) \in Nat /\ NextHead \in Slots
  BY SuccValue, NextHeadValue
<1>3. /\ NextHead' = NextHead /\ Taken' = Taken
      /\ Taken \in Nat /\ (Taken = Len(delivered) \/ Taking)
  <2>1. NextHead' = NextHead /\ (Taking' <=> Taking)
    BY <1>1 DEF NextHead, Taking
  <2>2. CASE Taking
    BY <1>1, <1>2, <2>1, <2>2, TakenValue DEF Taken
  <2>3. CASE ~Taking
    <3>1. Taken = Len(delivered) + 0 /\ Taken' = Len(delivered') + 0
      BY <2>1, <2>3, Zenon DEF Taken
    <3> QED
      BY <1>1, <1>2, <2>1, <3>1
  <2> QED
    BY <2>1, <2>2, <2>3
<1>4. CASE ~rx[rx_dev].own
  <2>1. UNCHANGED <<rx, rx_dev, accepted>>
    BY <1>4 DEF DeviceRx
  <2>2. Waiting' = Waiting
    BY <1>3, <2>1 DEF Waiting
  <2>3. RxArrived'
    BY <1>1, <2>1 DEF RxArrived
  <2> QED
    BY <1>1, <1>3, <2>1, <2>2, <2>3 DEF RxRing, RxCall, RxHanded, OneReceiver
<1>5. CASE rx[rx_dev].own
  <2>1. /\ rx' = [rx EXCEPT ![rx_dev] = [own |-> FALSE, frame |-> arrived + 1]]
        /\ rx_dev' = Succ(rx_dev) /\ accepted' = Append(accepted, arrived + 1)
    BY <1>5 DEF DeviceRx
  <2>2. /\ accepted' \in Seq(Nat) /\ Len(accepted') = Len(accepted) + 1
        /\ \A k \in 1..Len(accepted) : accepted'[k] = accepted[k]
        /\ accepted'[Len(accepted) + 1] = arrived + 1
    BY <1>2, <2>1
  <2>3. Waiting \in 0..Depth-1 /\ Waiting' = Waiting + 1
    <3>1. Waiting # Depth
      BY <1>2, <1>5, SuccValue DEF RxRing
    <3>2. Waiting' = Len(accepted') - Taken'
      BY DEF Waiting
    <3> QED
      BY <1>2, <1>3, <2>2, <3>1, <3>2 DEF RxRing, Waiting
  <2>4. \A k \in 0..Depth-1 :
          /\ Plus(NextHead, k) \in Slots
          /\ rx'[Plus(NextHead, k)] = IF k = Waiting THEN [own |-> FALSE, frame |-> arrived + 1]
                                      ELSE rx[Plus(NextHead, k)]
    <3> TAKE k \in 0..Depth-1
    <3>1. Plus(NextHead, k) \in Slots
      BY <1>2, PlusValue
    <3>2. Plus(NextHead, k) = Plus(NextHead, Waiting) => k = Waiting
      BY <1>2, <2>3, PlusInjective
    <3> QED
      BY <2>1, <3>1, <3>2 DEF RxRing
  <2>5. RxTypeOK'
    BY <1>1, <2>1, <2>2, SuccValue
  <2>6. RxRing'
    <3>1. rx_dev' = Plus(NextHead', Waiting')
      BY <1>2, <1>3, <2>1, <2>3, SuccPlus DEF RxRing
    <3>2. \A k \in 0..Depth-1 : rx'[Plus(NextHead, k)].own <=> k >= Waiting + 1
      <4> TAKE k \in 0..Depth-1
      <4>1. rx[Plus(NextHead, k)].own <=> k >= Waiting
        BY DEF RxRing
      <4>2. CASE k = Waiting
        BY <2>3, <2>4, <4>2
      <4>3. CASE k # Waiting
        <5>1. rx'[Plus(NextHead, k)] = rx[Plus(NextHead, k)]
          BY <2>4, <4>3
        <5>2. k >= Waiting <=> k >= Waiting + 1
          BY <2>3, <4>3
        <5> QED
          BY <4>1, <5>1, <5>2
      <4> QED
        BY <4>2, <4>3
    <3>3. ASSUME NEW k \in 0..Depth-1, k < Waiting + 1
          PROVE  rx'[Plus(NextHead, k)].frame = accepted'[Taken + k + 1]
      <4>1. CASE k = Waiting
        <5>1. Taken + k + 1 = Len(accepted) + 1
          BY <1>2, <1>3, <4>1 DEF Waiting
        <5> QED
          BY <2>2, <2>4, <4>1, <5>1
      <4>2. CASE k # Waiting
        <5>1. k < Waiting /\ Taken + k + 1 \in 1..Len(accepted)
          BY <1>2, <1>3, <2>3, <3>3, <4>2 DEF Waiting
        <5> QED
          BY <2>2, <2>4, <4>2, <5>1 DEF RxRing
      <4> QED
        BY <4>1, <4>2
    <3>4. Waiting' = Waiting + 1 /\ Waiting' \in 0..Depth /\ NextHead' = NextHead /\ Taken' = Taken
      BY <1>3, <2>3
    <3> HIDE DEF RxInv, RxTypeOK
    <3> QED
      BY <3>1, <3>2, <3>3, <3>4, Zenon DEF RxRing
  <2>7. RxHanded' /\ RxCall'
    <3>1. Len(delivered) <= Len(accepted) /\ (Taking => Len(delivered) + 1 <= Len(accepted))
      BY <1>2, <2>3, TakenValue DEF Waiting
    <3>2. RxHanded'
      BY <1>1, <1>2, <2>2, <3>1 DEF RxHanded
    <3>3. ASSUME NEW c \in Contexts, recv[c].pc \in {"copy", "rearm"}
          PROVE  rx'[rx_head] = rx[rx_head]
      BY <1>5, <2>1, <3>3 DEF RxCall
    <3>4. ASSUME NEW c \in Contexts, recv[c].pc = "head"
          PROVE  accepted'[Len(delivered) + 1] = accepted[Len(delivered) + 1]
      BY <1>2, <2>2, <3>1, <3>4 DEF Taking
    <3>5. RxCall /\ UNCHANGED <<recv, rx_head, delivered>>
      BY <1>1
    <3> HIDE DEF RxInv, RxTypeOK
    <3>6. RxCall'
      BY <3>3, <3>4, <3>5 DEF RxCall
    <3> QED
      BY <3>2, <3>6
  <2>8. RxArrived' /\ OneReceiver'
    <3>1. \A k \in 1..Len(accepted') : k # Len(accepted) + 1 => k \in 1..Len(accepted)
      BY <1>2, <2>2
    <3>2. \A k \in 1..Len(accepted) : accepted'[k] <= arrived /\ accepted'[k] \in Nat
      BY <2>2, ElementOfSeq DEF RxArrived
    <3>3. ASSUME NEW k \in 1..Len(accepted') PROVE accepted'[k] <= arrived'
      <4>1. arrived' = arrived + 1 /\ arrived \in Nat
        BY <1>1
      <4>2. CASE k = Len(accepted) + 1
        BY <2>2, <4>1, <4>2
      <4>3. CASE k \in 1..Len(accepted)
        BY <3>2, <4>1, <4>3
      <4> QED
        BY <3>1, <4>2, <4>3
    <3>4. ASSUME NEW j \in 1..Len(accepted'), NEW k \in 1..Len(accepted'), j < k
          PROVE  accepted'[j] < accepted'[k]
      <4>1. j \in 1..Len(accepted)
        BY <1>2, <2>2, <3>4
      <4>2. CASE k = Len(accepted) + 1
        BY <2>2, <3>2, <4>1, <4>2
      <4>3. CASE k # Len(accepted) + 1
        BY <2>2, <3>1, <3>4, <4>1, <4>3 DEF RxArrived
      <4> QED
        BY <4>2, <4>3
    <3> QED
      BY <1>1, <3>3, <3>4 DEF RxArrived, OneReceiver
  <2> QED
    BY <2>5, <2>6, <2>7, <2>8
<1> QED
  BY <1>4, <1>5

LEMMA RxStep ==
  ASSUME RxInv, ~PollAfterAttach, [EthNext]_ethVars
  PROVE  RxInv'
<1>1. ASSUME UNCHANGED rxVars PROVE RxInv'
  BY <1>1 DEF rxVars, RxInv, RxTypeOK, OneReceiver, RxRing, RxCall, RxHanded, RxArrived,
     NextHead, Waiting, Taken, Taking
<1>2. CASE SendCall \/ SendFill \/ SendKick \/ DeviceTx \/ UNCHANGED ethVars
  BY <1>1, <1>2 DEF SendCall, SendFill, SendKick, DeviceTx, ethVars
<1>3. ASSUME NEW c \in Contexts, RecvStep(c) PROVE RxInv'
  BY <1>3, RxLoadCopy, RxRearm, RxHead DEF RecvStep
<1> QED
  BY <1>2, <1>3, RxCalls, RxDevice DEF EthNext, Thread, Handler, Contexts

\* What a drain from the present position on would find is what waits.
LEMMA ReadyValue ==
  ASSUME RxInv
  PROVE  /\ Ready(NextHead) \in Seq(Nat) /\ Len(Ready(NextHead)) = Waiting
         /\ \A k \in 1..Waiting : Ready(NextHead)[k] = accepted[Taken + k]
<1> USE DEF RxInv, RxTypeOK
<1> DEFINE IsCount(k) == /\ \A j \in 0..k-1 : ~rx[(NextHead + j) % Depth].own
                         /\ k = Depth \/ rx[(NextHead + k) % Depth].own
           n == CHOOSE k \in 0..Depth : IsCount(k)
<1>1. Waiting \in 0..Depth /\ NextHead \in Slots
  BY SuccValue, NextHeadValue DEF RxRing
<1>2. \A k \in 0..Depth-1 : rx[(NextHead + k) % Depth].own <=> k >= Waiting
  BY DEF RxRing, Plus
<1>3. IsCount(Waiting)
  BY <1>1, <1>2
<1>4. \A k \in 0..Depth : IsCount(k) => k = Waiting
  <2> SUFFICES ASSUME NEW k \in 0..Depth, IsCount(k) PROVE k = Waiting
    OBVIOUS
  <2>1. ~(k < Waiting)
    BY <1>1, <1>2
  <2>2. ~(Waiting < k)
    <3> SUFFICES ASSUME Waiting < k PROVE FALSE
      OBVIOUS
    <3>1. Waiting \in 0..k-1 /\ Waiting \in 0..Depth-1
      BY <1>1
    <3>2. ~rx[(NextHead + Waiting) % Depth].own
      BY <3>1
    <3>3. rx[(NextHead + Waiting) % Depth].own <=> Waiting >= Waiting
      BY <1>2, <3>1
    <3> QED
      BY <1>1, <3>2, <3>3
  <2> QED
    BY <1>1, <2>1, <2>2
<1>5. n = Waiting
  <2> HIDE DEF IsCount
  <2> QED
    BY <1>1, <1>3, <1>4
<1>6. Ready(NextHead) = [j \in 1..n |-> rx[(NextHead + j - 1) % Depth].frame]
  BY DEF Ready
<1> HIDE DEF n, IsCount
<1>7. ASSUME NEW j \in 1..Waiting
      PROVE  /\ rx[(NextHead + j - 1) % Depth].frame = accepted[Taken + j]
             /\ rx[(NextHead + j - 1) % Depth].frame \in Nat
  <2>1. j - 1 \in 0..Depth-1 /\ j - 1 < Waiting /\ Taken + (j - 1) + 1 = Taken + j
        /\ NextHead + (j - 1) = NextHead + j - 1
    BY <1>1, TakenType DEF Slots
  <2>2. Plus(NextHead, j - 1) = (NextHead + j - 1) % Depth /\ Plus(NextHead, j - 1) \in Slots
    BY <1>1, <2>1, PlusValue DEF Plus
  <2> QED
    BY <2>1, <2>2 DEF RxRing
<1>8. Ready(NextHead) \in [1..Waiting -> Nat] /\ Waiting \in Nat
  <2>1. Ready(NextHead) = [j \in 1..Waiting |-> rx[(NextHead + j - 1) % Depth].frame]
    BY <1>5, <1>6, Zenon
  <2>2. \A j \in 1..Waiting : rx[(NextHead + j - 1) % Depth].frame \in Nat
    BY <1>7
  <2>3. Ready(NextHead) \in [1..Waiting -> Nat]
    BY <2>1, <2>2, Zenon
  <2> QED
    BY <1>1, <2>3
<1> QED
  BY <1>5, <1>6, <1>7, <1>8

LEMMA OneFrame ==
  ASSUME NEW f \in Nat
  PROVE  /\ <<f>> \o <<>> = <<f>> /\ <<>> \o <<f>> = <<f>>
         /\ <<f>> \in Seq(Nat) /\ Len(<<f>>) = 1 /\ \A k \in 1..1 : <<f>>[k] = f
<1>1. <<f>> \in Seq(Nat)
  OBVIOUS
<1>2. Len(<<f>>) = 1 /\ \A k \in 1..1 : <<f>>[k] = f
  OBVIOUS
<1> QED
  BY <1>1, <1>2, ConcatEmptySeq

LEMMA InHandValue ==
  ASSUME RxInv
  PROVE  /\ InHand("irq") \o InHand("thread") \in Seq(Nat)
         /\ Len(delivered) + Len(InHand("irq") \o InHand("thread")) = Taken
         /\ \A k \in 1..Len(InHand("irq") \o InHand("thread")) :
              (InHand("irq") \o InHand("thread"))[k] = accepted[Len(delivered) + k]
<1> SUFFICES ASSUME NEW hand, hand = InHand("irq") \o InHand("thread")
             PROVE  /\ hand \in Seq(Nat) /\ Len(delivered) + Len(hand) = Taken
                    /\ \A k \in 1..Len(hand) : hand[k] = accepted[Len(delivered) + k]
  OBVIOUS
<1>1. Len(delivered) \in Nat /\ "irq" \in Contexts /\ "thread" \in Contexts
  BY DEF RxInv, RxTypeOK, Contexts
<1>2. CASE recv["irq"].pc = "head"
  <2>1. recv["thread"].pc # "head" /\ Taking
    BY <1>1, <1>2, Alone DEF Taking, RxInv
  <2>2. InHand("irq") = <<recv["irq"].frame>> /\ InHand("thread") = <<>>
    BY <1>2, <2>1 DEF InHand
  <2>3. recv["irq"].frame \in Nat /\ recv["irq"].frame = accepted[Len(delivered) + 1]
    BY <1>1, <1>2 DEF RxCall, RxInv, RxTypeOK
  <2>4. hand = <<recv["irq"].frame>>
    BY <2>2, <2>3, OneFrame
  <2>5. Taken = Len(delivered) + 1
    BY <2>1, TakenValue
  <2>6. hand \in Seq(Nat) /\ Len(hand) = 1 /\ \A k \in 1..1 : hand[k] = accepted[Len(delivered) + 1]
    BY <2>3, <2>4, OneFrame
  <2>7. \A k \in 1..1 : Len(delivered) + k = Len(delivered) + 1
    BY <1>1
  <2>8. \A k \in 1..Len(hand) : hand[k] = accepted[Len(delivered) + k]
    BY <2>6, <2>7
  <2> QED
    BY <2>5, <2>6, <2>8
<1>3. CASE recv["irq"].pc # "head" /\ recv["thread"].pc = "head"
  <2>1. Taking
    BY <1>1, <1>3 DEF Taking
  <2>2. InHand("irq") = <<>> /\ InHand("thread") = <<recv["thread"].frame>>
    BY <1>3 DEF InHand
  <2>3. recv["thread"].frame \in Nat /\ recv["thread"].frame = accepted[Len(delivered) + 1]
    BY <1>1, <1>3 DEF RxCall, RxInv, RxTypeOK
  <2>4. hand = <<recv["thread"].frame>>
    BY <2>2, <2>3, OneFrame
  <2>5. Taken = Len(delivered) + 1
    BY <2>1, TakenValue
  <2>6. hand \in Seq(Nat) /\ Len(hand) = 1 /\ \A k \in 1..1 : hand[k] = accepted[Len(delivered) + 1]
    BY <2>3, <2>4, OneFrame
  <2>7. \A k \in 1..1 : Len(delivered) + k = Len(delivered) + 1
    BY <1>1
  <2>8. \A k \in 1..Len(hand) : hand[k] = accepted[Len(delivered) + k]
    BY <2>6, <2>7
  <2> QED
    BY <2>5, <2>6, <2>8
<1>4. CASE recv["irq"].pc # "head" /\ recv["thread"].pc # "head"
  <2>1. ~Taking
    BY <1>4 DEF Taking, Contexts
  <2>2. InHand("irq") = <<>> /\ InHand("thread") = <<>>
    BY <1>4 DEF InHand
  <2>3. <<>> \o <<>> = <<>> /\ <<>> \in Seq(Nat) /\ Len(<<>>) = 0
    BY EmptySeq, ConcatEmptySeq
  <2>4. Taken = Len(delivered) + 0
    BY <2>1, TakenValue
  <2>5. hand = <<>>
    BY <2>2, <2>3, Zenon
  <2>6. hand \in Seq(Nat) /\ Len(hand) = 0
    BY <2>5, EmptySeq
  <2>7. \A k \in 1..Len(hand) : hand[k] = accepted[Len(delivered) + k]
    BY <2>6
  <2> QED
    BY <2>4, <2>6, <2>7
<1> QED
  BY <1>2, <1>3, <1>4

LEMMA RxInvImplies == RxInv => NothingLostOrReordered /\ DeliveredInOrder
<1> SUFFICES ASSUME RxInv PROVE NothingLostOrReordered /\ DeliveredInOrder
  OBVIOUS
<1> USE DEF RxInv, RxTypeOK
<1> DEFINE hand == InHand("irq") \o InHand("thread")
           ready == Ready(NextHead)
<1>1. /\ delivered \in Seq(Nat) /\ accepted \in Seq(Nat) /\ Len(delivered) \in Nat
      /\ Len(accepted) \in Nat
  OBVIOUS
<1>2. /\ hand \in Seq(Nat) /\ Len(delivered) + Len(hand) = Taken /\ Len(hand) \in Nat
      /\ \A k \in 1..Len(hand) : hand[k] = accepted[Len(delivered) + k]
  <2>1. /\ hand \in Seq(Nat) /\ Len(delivered) + Len(hand) = Taken
        /\ \A k \in 1..Len(hand) : hand[k] = accepted[Len(delivered) + k]
    BY InHandValue, Zenon
  <2>2. Len(hand) \in Nat
    <3> HIDE DEF hand
    <3> QED
      BY <2>1
  <2> QED
    BY <2>1, <2>2
<1>3. /\ ready \in Seq(Nat) /\ Len(ready) = Waiting /\ Len(ready) \in Nat
      /\ \A k \in 1..Len(ready) : ready[k] = accepted[Taken + k]
  <2>1. /\ ready \in Seq(Nat) /\ Len(ready) = Waiting
        /\ \A k \in 1..Waiting : ready[k] = accepted[Taken + k]
    BY ReadyValue, Zenon
  <2> HIDE DEF ready
  <2>2. Len(ready) \in Nat
    BY <2>1
  <2> QED
    BY <2>1, <2>2, Zenon
<1>4. InHand("irq") \in Seq(Nat) /\ InHand("thread") \in Seq(Nat)
  BY DEF InHand, Contexts
<1>5. delivered \o InHand("irq") \o InHand("thread") \o ready = (delivered \o hand) \o ready
  BY <1>1, <1>4, ConcatAssociative
<1> HIDE DEF hand, ready
<1>6. /\ delivered \o hand \in Seq(Nat) /\ Len(delivered \o hand) = Taken
      /\ \A k \in 1..Taken : (delivered \o hand)[k] = accepted[k]
  <2>1. /\ delivered \o hand \in Seq(Nat) /\ Len(delivered \o hand) = Len(delivered) + Len(hand)
        /\ \A k \in 1..Len(delivered) + Len(hand) :
             (delivered \o hand)[k] = IF k <= Len(delivered) THEN delivered[k]
                                      ELSE hand[k - Len(delivered)]
    BY <1>1, <1>2, ConcatProperties
  <2>2. ASSUME NEW k \in 1..Taken PROVE (delivered \o hand)[k] = accepted[k]
    <3>1. CASE k <= Len(delivered)
      BY <1>1, <1>2, <2>1, <3>1 DEF RxHanded
    <3>2. CASE ~(k <= Len(delivered))
      <4>1. k - Len(delivered) \in 1..Len(hand) /\ Len(delivered) + (k - Len(delivered)) = k
        BY <1>1, <1>2, <3>2
      <4> QED
        BY <1>2, <2>1, <3>2, <4>1
    <3> QED
      BY <3>1, <3>2
  <2> QED
    BY <1>2, <2>1, <2>2
<1>7. (delivered \o hand) \o ready = accepted
  <2> DEFINE front == delivered \o hand
  <2>1. /\ front \in Seq(Nat) /\ Len(front) = Taken /\ Taken \in Nat
        /\ \A k \in 1..Taken : front[k] = accepted[k]
    BY <1>1, <1>2, <1>6
  <2> HIDE DEF front
  <2>2. /\ front \o ready \in Seq(Nat) /\ Len(front \o ready) = Taken + Len(ready)
        /\ \A k \in 1..Taken + Len(ready) :
             (front \o ready)[k] = IF k <= Taken THEN front[k] ELSE ready[k - Taken]
    <3>1. /\ front \o ready \in Seq(Nat) /\ Len(front \o ready) = Len(front) + Len(ready)
          /\ \A k \in 1..Len(front) + Len(ready) :
               (front \o ready)[k] = IF k <= Len(front) THEN front[k] ELSE ready[k - Len(front)]
      <4>1. front \in Seq(Nat) /\ ready \in Seq(Nat)
        BY <1>3, <2>1
      <4> HIDE DEF RxInv, RxTypeOK
      <4> QED
        BY <4>1, ConcatProperties, Zenon
    <3> QED
      BY <2>1, <3>1, Zenon
  <2>3. Taken + Len(ready) = Len(accepted)
    BY <1>1, <1>3, <2>1 DEF Waiting
  <2>4. ASSUME NEW k \in 1..Len(accepted) PROVE (front \o ready)[k] = accepted[k]
    <3>1. CASE k <= Taken
      BY <2>1, <2>2, <2>3, <3>1
    <3>2. CASE ~(k <= Taken)
      <4>1. k - Taken \in 1..Len(ready) /\ Taken + (k - Taken) = k
        BY <1>1, <1>3, <2>1, <2>3, <3>2
      <4> QED
        BY <1>3, <2>2, <2>3, <3>2, <4>1
    <3> QED
      BY <3>1, <3>2
  <2> QED
    BY <1>1, <2>2, <2>3, <2>4, SeqEqual DEF front
<1>8. NothingLostOrReordered
  BY <1>5, <1>7 DEF NothingLostOrReordered, ready
<1>9. DeliveredInOrder
  <2>1. Len(delivered) <= Len(accepted)
    BY <1>1, <1>2, <1>3 DEF Waiting
  <2>2. \A k \in 1..Len(delivered) : k \in 1..Len(accepted) /\ delivered[k] = accepted[k]
    BY <1>1, <2>1 DEF RxHanded
  <2> QED
    BY <2>2 DEF DeliveredInOrder, RxArrived
<1> QED
  BY <1>8, <1>9

\* With a program that leaves the ring to the handler once it is attached, every
\* frame the device put into the ring is handed over once and in order or still
\* lies there in order (eth_rtl8169.c, eth_recv and eth_irq_handler), for every
\* depth of the ring and however the device and the handler interleave.
THEOREM NothingLostOrReorderedHolds ==
  ~PollAfterAttach => (EthSpec => []NothingLostOrReordered)
<1> SUFFICES ASSUME ~PollAfterAttach PROVE EthSpec => []NothingLostOrReordered
  OBVIOUS
<1>1. RxInv /\ [EthNext]_ethVars => RxInv'
  BY RxStep
<1> QED
  BY <1>1, RxInit, RxInvImplies, PTL DEF EthSpec

\* Under the same condition nothing is handed over twice or out of order.  The
\* condition cannot be dropped: with it violated the run eth_poll finds the
\* same property false ("stay usable", eth_rtl8169.c:255-256).
THEOREM DeliveredInOrderHolds ==
  ~PollAfterAttach => (EthSpec => []DeliveredInOrder)
<1> SUFFICES ASSUME ~PollAfterAttach PROVE EthSpec => []DeliveredInOrder
  OBVIOUS
<1>1. RxInv /\ [EthNext]_ethVars => RxInv'
  BY RxStep
<1> QED
  BY <1>1, RxInit, RxInvImplies, PTL DEF EthSpec
=============================================================================
