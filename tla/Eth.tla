-------------------------------- MODULE Eth --------------------------------
(***************************************************************************)
(* The RTL8169 driver (eth_rtl8169.c) and its two consumers: net_poll,     *)
(* which drains the receive ring from the main program, and                *)
(* eth_irq_handler, which drains it in interrupt context once              *)
(* eth_irq_attach has been called.  eth_recv and eth_send are broken into  *)
(* their memory accesses; the handler may interrupt the program between    *)
(* any two of them, the device may act between any two at all.             *)
(*                                                                         *)
(* Frames are numbers, in the order the device meets them; every frame     *)
(* carries payload.  External: the device fills the descriptor it is at if *)
(* it owns it, drops the frame otherwise, and latches a status bit either  *)
(* way; a kick makes it send the transmit descriptors it owns, in ring     *)
(* order.  Which frames net_poll then loses for want of pbufs is lwIP's    *)
(* business and left out.                                                  *)
(***************************************************************************)
EXTENDS Naturals, Sequences

CONSTANTS
  Depth,            \* ETH_RING_DEPTH
  MaxFrames,        \* bound: frames that arrive
  MaxSends,         \* bound: calls of eth_send
  PollAfterAttach   \* the program still calls eth_recv with the handler attached

ASSUME EthAssumption ==
  /\ Depth \in Nat \ {0} /\ MaxFrames \in Nat /\ MaxSends \in Nat
  /\ PollAfterAttach \in BOOLEAN

Slots == 0..Depth-1
Succ(i) == (i + 1) % Depth
Contexts == {"thread", "irq"}

VARIABLES
  rx,         \* rx[i]: the descriptor's OWN bit and the frame in its buffer
  rx_head,    \* e->rx_head
  rx_dev,     \* the descriptor the device fills next
  isr,        \* latched status bits, of {"ROK", "RDU"}
  attach,     \* eth_irq_attach: no, clear, unmask, yes
  stale,      \* history: the ring held frames when eth_irq_attach cleared ISR
  recv,       \* recv[c]: eth_recv of context c: its step, idx and the frame copied
  hisr,       \* `isr` of eth_irq_handler
  tx, tx_head, tx_dev,    \* the same for the transmit ring
  send,       \* eth_send: its step and idx
  kicked,     \* the device is working through the transmit ring
  arrived,    \* frames that have arrived
  accepted,   \* history: frames the device put into the ring
  delivered,  \* history: frames net_poll or the callback was given
  queued,     \* history: number of frames eth_send accepted
  wire        \* history: frames sent

rxVars == <<rx, rx_head, rx_dev, isr, attach, stale, recv, hisr, arrived, accepted, delivered>>
txVars == <<tx, tx_head, tx_dev, send, kicked, queued, wire>>
ethVars == <<rxVars, txVars>>

Idle == [pc |-> "idle", idx |-> 0, frame |-> 0]

\* eth_init: every receive descriptor is the device's, every transmit
\* descriptor ours; ISR cleared, all interrupts masked, engines on.
EthInit ==
  /\ rx = [i \in Slots |-> [own |-> TRUE, frame |-> 0]]
  /\ rx_head = 0 /\ rx_dev = 0
  /\ isr = {} /\ attach = "no" /\ stale = FALSE
  /\ recv = [c \in Contexts |-> Idle]
  /\ hisr = {}
  /\ tx = [i \in Slots |-> [own |-> FALSE, frame |-> 0]]
  /\ tx_head = 0 /\ tx_dev = 0
  /\ send = [pc |-> "idle", idx |-> 0]
  /\ kicked = FALSE
  /\ arrived = 0 /\ accepted = <<>> /\ delivered = <<>>
  /\ queued = 0 /\ wire = <<>>

\* The program runs only while the handler does not.
ThreadRuns == recv["irq"].pc = "idle"
Runs(c) == c = "irq" \/ ThreadRuns

-----------------------------------------------------------------------------
(***************************************************************************)
(* eth_recv, called in a loop by net_poll ("thread") and by                *)
(* eth_irq_handler ("irq").                                                *)
(***************************************************************************)

NetPoll ==
  /\ ThreadRuns
  /\ recv["thread"].pc = "idle" /\ send.pc = "idle"
  /\ attach \in {"no", "yes"}
  /\ attach = "yes" => PollAfterAttach
  /\ recv' = [recv EXCEPT !["thread"].pc = "load"]
  /\ UNCHANGED <<rx, rx_head, rx_dev, isr, attach, stale, hisr, arrived, accepted, delivered, txVars>>

\* idx = rx_head, and the acquire load of its flags.  A descriptor the device
\* owns ends the drain loop.
RecvLoad(c) ==
  /\ Runs(c)
  /\ recv[c].pc = "load"
  /\ recv' = [recv EXCEPT ![c] = IF rx[rx_head].own THEN Idle
                                 ELSE [Idle EXCEPT !.pc = "copy", !.idx = rx_head]]
  /\ UNCHANGED <<rx, rx_head, rx_dev, isr, attach, stale, hisr, arrived, accepted, delivered, txVars>>

\* memcpy out of the descriptor's buffer.
RecvCopy(c) ==
  /\ Runs(c)
  /\ recv[c].pc = "copy"
  /\ recv' = [recv EXCEPT ![c] = [@ EXCEPT !.frame = rx[recv[c].idx].frame, !.pc = "rearm"]]
  /\ UNCHANGED <<rx, rx_head, rx_dev, isr, attach, stale, hisr, arrived, accepted, delivered, txVars>>

\* flags_len = OWN | ..., then the barrier: the device may fill it again.
RecvRearm(c) ==
  /\ Runs(c)
  /\ recv[c].pc = "rearm"
  /\ rx' = [rx EXCEPT ![recv[c].idx].own = TRUE]
  /\ recv' = [recv EXCEPT ![c].pc = "head"]
  /\ UNCHANGED <<rx_head, rx_dev, isr, attach, stale, hisr, arrived, accepted, delivered, txVars>>

RecvHeadNoWrap(c) ==
  /\ Runs(c)
  /\ recv[c].pc = "head"
  /\ rx_head' = IF recv[c].idx + 1 < Depth THEN recv[c].idx + 1 ELSE recv[c].idx
  /\ delivered' = Append(delivered, recv[c].frame)
  /\ recv' = [recv EXCEPT ![c] = [Idle EXCEPT !.pc = "load"]]
  /\ UNCHANGED <<rx, rx_dev, isr, attach, stale, hisr, arrived, accepted, txVars>>

RecvHeadOnce(c) ==
  /\ Runs(c)
  /\ recv[c].pc = "head"
  /\ rx_head' = Succ(recv[c].idx)
  /\ delivered' = Append(delivered, recv[c].frame)
  /\ recv' = [recv EXCEPT ![c] = Idle]
  /\ UNCHANGED <<rx, rx_dev, isr, attach, stale, hisr, arrived, accepted, txVars>>

\* rx_head = (idx + 1) % DEPTH; the frame is handed over, the loop goes on.
RecvHead(c) ==
  /\ Runs(c)
  /\ recv[c].pc = "head"
  /\ rx_head' = Succ(recv[c].idx)
  /\ delivered' = Append(delivered, recv[c].frame)
  /\ recv' = [recv EXCEPT ![c] = [Idle EXCEPT !.pc = "load"]]
  /\ UNCHANGED <<rx, rx_dev, isr, attach, stale, hisr, arrived, accepted, txVars>>

-----------------------------------------------------------------------------
(***************************************************************************)
(* eth_irq_attach and eth_irq_handler.                                     *)
(***************************************************************************)

\* The frames a drain starting at slot i would find, in order.
Ready(i) ==
  LET n == CHOOSE k \in 0..Depth :
             /\ \A j \in 0..k-1 : ~rx[(i + j) % Depth].own
             /\ k = Depth \/ rx[(i + k) % Depth].own
  IN [j \in 1..n |-> rx[(i + j - 1) % Depth].frame]

AttachCall ==
  /\ ThreadRuns
  /\ attach = "no"
  /\ recv["thread"].pc = "idle" /\ send.pc = "idle"
  /\ attach' = "clear"
  /\ UNCHANGED <<rx, rx_head, rx_dev, isr, stale, recv, hisr, arrived, accepted, delivered, txVars>>

\* ISR is cleared of whatever has happened so far; then IMR is opened and the
\* handler wired.
AttachStep ==
  /\ \/ /\ attach = "clear" /\ attach' = "unmask"
        /\ isr' = {}
        /\ stale' = (Ready(rx_head) # <<>>)
     \/ /\ attach = "unmask" /\ attach' = "yes"
        /\ UNCHANGED <<isr, stale>>
  /\ UNCHANGED <<rx, rx_head, rx_dev, recv, hisr, arrived, accepted, delivered, txVars>>

\* The line is up: the dispatcher calls the handler, which reads ISR.
IrqEnter ==
  /\ attach = "yes" /\ isr # {}
  /\ recv["irq"].pc = "idle"
  /\ hisr' = isr
  /\ recv' = [recv EXCEPT !["irq"].pc = "ack"]
  /\ UNCHANGED <<rx, rx_head, rx_dev, isr, attach, stale, arrived, accepted, delivered, txVars>>

\* It writes the bits it read back (write 1 to clear), then drains.
IrqAck ==
  /\ recv["irq"].pc = "ack"
  /\ isr' = isr \ hisr
  /\ hisr' = {}
  /\ stale' = FALSE
  /\ recv' = [recv EXCEPT !["irq"].pc = "load"]
  /\ UNCHANGED <<rx, rx_head, rx_dev, attach, arrived, accepted, delivered, txVars>>

-----------------------------------------------------------------------------
(***************************************************************************)
(* eth_send.  A full ring makes it return false, which is no step.         *)
(***************************************************************************)

SendCall ==
  /\ ThreadRuns
  /\ send.pc = "idle" /\ recv["thread"].pc = "idle" /\ attach \in {"no", "yes"}
  /\ queued < MaxSends
  /\ ~tx[tx_head].own
  /\ send' = [pc |-> "fill", idx |-> tx_head]
  /\ queued' = queued + 1
  /\ UNCHANGED <<rxVars, tx, tx_head, tx_dev, kicked, wire>>

\* memcpy into the buffer, then flags_len = OWN | FS | LS | len and the barrier.
SendFill ==
  /\ ThreadRuns
  /\ send.pc = "fill"
  /\ tx' = [tx EXCEPT ![send.idx] = [own |-> TRUE, frame |-> queued]]
  /\ send' = [send EXCEPT !.pc = "kick"]
  /\ UNCHANGED <<rxVars, tx_head, tx_dev, kicked, queued, wire>>

SendKickForgets ==
  /\ ThreadRuns
  /\ send.pc = "kick"
  /\ kicked' = (kicked \/ tx_head = 0)
  /\ tx_head' = Succ(send.idx)
  /\ send' = [pc |-> "idle", idx |-> 0]
  /\ UNCHANGED <<rxVars, tx, tx_dev, queued, wire>>

SendKickSkips ==
  /\ ThreadRuns
  /\ send.pc = "kick"
  /\ kicked' = TRUE
  /\ tx_head' = (send.idx + 2) % Depth
  /\ send' = [pc |-> "idle", idx |-> 0]
  /\ UNCHANGED <<rxVars, tx, tx_dev, queued, wire>>

\* TPPoll, and tx_head moves on.
SendKick ==
  /\ ThreadRuns
  /\ send.pc = "kick"
  /\ kicked' = TRUE
  /\ tx_head' = Succ(send.idx)
  /\ send' = [pc |-> "idle", idx |-> 0]
  /\ UNCHANGED <<rxVars, tx, tx_dev, queued, wire>>

-----------------------------------------------------------------------------
(***************************************************************************)
(* The device.                                                             *)
(***************************************************************************)

DeviceRx ==
  /\ arrived < MaxFrames
  /\ arrived' = arrived + 1
  /\ \/ /\ rx[rx_dev].own
        /\ rx' = [rx EXCEPT ![rx_dev] = [own |-> FALSE, frame |-> arrived + 1]]
        /\ rx_dev' = Succ(rx_dev)
        /\ accepted' = Append(accepted, arrived + 1)
        /\ isr' = isr \cup {"ROK"}
     \/ /\ ~rx[rx_dev].own
        /\ isr' = isr \cup {"RDU"}
        /\ UNCHANGED <<rx, rx_dev, accepted>>
  /\ UNCHANGED <<rx_head, attach, stale, recv, hisr, delivered, txVars>>

DeviceTx ==
  /\ kicked
  /\ \/ /\ tx[tx_dev].own
        /\ tx' = [tx EXCEPT ![tx_dev].own = FALSE]
        /\ wire' = Append(wire, tx[tx_dev].frame)
        /\ tx_dev' = Succ(tx_dev)
        /\ UNCHANGED kicked
     \/ ~tx[tx_dev].own /\ kicked' = FALSE /\ UNCHANGED <<tx, wire, tx_dev>>
  /\ UNCHANGED <<rxVars, tx_head, send, queued>>

-----------------------------------------------------------------------------

RecvStep(c) == RecvLoad(c) \/ RecvCopy(c) \/ RecvRearm(c) \/ RecvHead(c)
Handler == IrqEnter \/ IrqAck \/ RecvStep("irq")
Thread == AttachStep \/ RecvStep("thread") \/ SendFill \/ SendKick

EthNext ==
  \/ NetPoll \/ AttachCall \/ SendCall
  \/ Thread \/ Handler \/ DeviceRx \/ DeviceTx

\* The interrupt is taken, the handler and a call in progress go on, and the
\* device works on what it was told to send.
EthFairness == WF_ethVars(Handler) /\ WF_ethVars(Thread) /\ WF_ethVars(DeviceTx)

EthSpec == EthInit /\ [][EthNext]_ethVars
EthFairSpec == EthSpec /\ EthFairness

-----------------------------------------------------------------------------
(***************************************************************************)
(* Properties.                                                             *)
(***************************************************************************)

\* The frame a context has taken out of the ring and not yet handed over.
InHand(c) == IF recv[c].pc = "head" THEN <<recv[c].frame>> ELSE <<>>

\* Where the next drain will look once the calls in progress have returned.
NextHead ==
  IF \E c \in Contexts : recv[c].pc = "head" THEN Succ(rx_head) ELSE rx_head

\* Every frame the device put into the ring is handed over exactly once and in
\* order, or still lies in the ring in order: the driver and the device never
\* disagree about the ring, not even when it is full and a descriptor is
\* refilled before rx_head has moved on.
NothingLostOrReordered ==
  delivered \o InHand("irq") \o InHand("thread") \o Ready(NextHead) = accepted

\* Frames go out in the order eth_send accepted them, none lost, none twice.
SentInOrder ==
  /\ \A k \in 1..Len(wire) : wire[k] = k
  /\ Len(wire) <= queued

\* A frame in the ring with the handler attached is handed over, unless it was
\* there when eth_irq_attach cleared ISR (eth_rtl8169.c:306) and no interrupt has
\* come since: the edge of such a frame is lost.
AllDelivered ==
  \A k \in 1..MaxFrames :
    (attach = "yes" /\ ~stale /\ Len(accepted) >= k) ~> (Len(delivered) >= k)

\* eth_irq_attach "drains every ready frame into `cb`" (eth.h:101-102): also those
\* that were ready before it.
ReadyFramesDelivered ==
  \A k \in 1..MaxFrames :
    (attach = "yes" /\ Len(accepted) >= k) ~> (Len(delivered) >= k)

\* Every frame eth_send accepted reaches the wire.
AllSent == \A k \in 1..MaxSends : (queued >= k) ~> (Len(wire) >= k)

\* "eth_recv()/eth_send() stay usable" (eth_rtl8169.c:255-256) and "remain
\* valid" (eth.h:106) with the handler attached: no frame is handed over twice
\* or out of order.
DeliveredInOrder == \A j, k \in 1..Len(delivered) : j < k => delivered[j] < delivered[k]
=============================================================================
