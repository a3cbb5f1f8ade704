-------------------------------- MODULE Irq --------------------------------
(***************************************************************************)
(* External interrupts on the hart whose PLIC context the HAL uses: the    *)
(* registration calls of irq.c, the PLIC half of the platform backends,    *)
(* the trap entry of trap.S and the claim / handle / complete loop of      *)
(* handle_external.                                                        *)
(*                                                                         *)
(* External: devices drive level lines; the PLIC latches a line as pending *)
(* unless that source is claimed and not completed; a claim returns the    *)
(* pending enabled source of highest priority, the lowest number among     *)
(* equals, and is not affected by the threshold, which gates delivery      *)
(* only.  A handler services its device, which lowers the line.  The       *)
(* counters irq_count_* report are left out: nothing depends on them.      *)
(***************************************************************************)
EXTENDS Naturals, FiniteSets

CONSTANTS
  Sources,    \* sources that devices are wired to
  Limit,      \* RVVM_PLIC_SRC_LIMIT, the size of handlers[]
  PrioMod,    \* priorities are taken modulo this (`& 0x7` in the code)
  Regs,       \* bound: handlers are told apart as 1..Regs; 0 is NULL
  MaxEvents   \* bound: how often a device may raise its line

ASSUME IrqAssumption ==
  /\ Sources \subseteq Nat \ {0}
  /\ Limit \in Nat \ {0}
  /\ PrioMod \in Nat \ {0, 1}
  /\ Regs \in Nat /\ MaxEvents \in Nat

ValidSource(s) == s # 0 /\ s < Limit

VARIABLES
  handlers,   \* handlers[s]: fn and ctx; a registration stores both, fn first
  reg,        \* the irq_register call in progress: its source (0: none) and ctx
  enable,     \* the sources whose enable bit is set
  prio,       \* prio[s]
  threshold,
  meie,       \* mie.MEIE / sie.SEIE
  ie,         \* status.IE
  line,       \* the sources whose device asserts its line
  pending,    \* the sources latched in the PLIC
  inflight,   \* the sources claimed and not completed
  pc,         \* user, claim, fn, complete
  src,        \* `source` of handle_external
  left,       \* history: the sources the previous stage had claimed and not completed
  asked,      \* history: the sources the program has enabled since irq_init
  events      \* how often devices have raised their lines

irqVars == <<handlers, reg, enable, prio, threshold, meie, ie, line, pending,
             inflight, pc, src, left, asked, events>>
plicRegs == <<enable, prio, threshold>>
wires == <<line, pending, inflight, events>>

Handlers == [fn : 0..Regs, ctx : 0..Regs]

\* The table is zeroed memory and the hart takes no interrupts; devices and PLIC
\* are as the previous stage left them.
IrqBoot ==
  /\ handlers = [s \in Sources |-> [fn |-> 0, ctx |-> 0]]
  /\ reg = [source |-> 0, ctx |-> 0]
  /\ enable \in SUBSET Sources
  /\ prio \in [Sources -> 0..PrioMod-1]
  /\ threshold \in 0..PrioMod-1
  /\ meie = FALSE /\ ie = FALSE
  /\ line \in SUBSET Sources
  /\ left \in SUBSET Sources /\ inflight = left
  /\ pending \in SUBSET (Sources \ left)
  /\ pc = "user" /\ src = 0
  /\ asked = {}
  /\ events = 0

-----------------------------------------------------------------------------
(***************************************************************************)
(* Calls of the program, between traps.                                    *)
(***************************************************************************)

InUser == pc = "user" /\ reg.source = 0

IrqInitKeepsEnables ==
  /\ InUser /\ ~ie
  /\ handlers' = [s \in Sources |-> [fn |-> 0, ctx |-> 0]]
  /\ prio' = [s \in Sources |-> 0]
  /\ threshold' = 0
  /\ meie' = TRUE
  /\ asked' = {}
  /\ UNCHANGED <<enable, reg, ie, wires, pc, src, left>>

\* irq_init: clear the table, plat_intc_init, set tvec and MEIE.  Programs call
\* it before they enable interrupts globally.
IrqInit ==
  /\ InUser /\ ~ie
  /\ handlers' = [s \in Sources |-> [fn |-> 0, ctx |-> 0]]
  /\ enable' = {}
  /\ prio' = [s \in Sources |-> 0]
  /\ threshold' = 0
  /\ meie' = TRUE
  /\ asked' = {}
  /\ UNCHANGED <<reg, ie, wires, pc, src, left>>

\* irq_register stores fn, then ctx, at any time: it also replaces and removes
\* handlers (irq.h:45-46).  Handler j is registered with context j.
IrqRegister(s) ==
  /\ InUser
  /\ ValidSource(s)
  /\ \E j \in 0..Regs :
       /\ handlers' = [handlers EXCEPT ![s].fn = j]
       /\ reg' = [source |-> s, ctx |-> j]
  /\ UNCHANGED <<plicRegs, meie, ie, wires, pc, src, left, asked>>

IrqRegisterCtx ==
  /\ pc = "user"
  /\ reg.source # 0
  /\ handlers' = [handlers EXCEPT ![reg.source].ctx = reg.ctx]
  /\ reg' = [source |-> 0, ctx |-> 0]
  /\ UNCHANGED <<plicRegs, meie, ie, wires, pc, src, left, asked>>

\* irq_enable -> plat_intc_enable_source: a priority of 0 becomes 1, then the
\* source's bit of the enable word is set.
EnableSource(s) ==
  /\ InUser
  /\ ValidSource(s)
  /\ prio' = IF prio[s] = 0 THEN [prio EXCEPT ![s] = 1] ELSE prio
  /\ enable' = enable \cup {s}
  /\ asked' = asked \cup {s}
  /\ UNCHANGED <<handlers, reg, threshold, meie, ie, wires, pc, src, left>>

DisableSource(s) ==
  /\ InUser
  /\ ValidSource(s)
  /\ enable' = enable \ {s}
  /\ asked' = asked \ {s}
  /\ UNCHANGED <<handlers, reg, prio, threshold, meie, ie, wires, pc, src, left>>

\* irq_set_priority -> plat_intc_set_priority.
SetPriority(s) ==
  /\ InUser
  /\ ValidSource(s)
  /\ \E p \in 0..PrioMod : prio' = [prio EXCEPT ![s] = p % PrioMod]
  /\ UNCHANGED <<handlers, reg, enable, threshold, meie, ie, wires, pc, src, left, asked>>

SetThreshold ==
  /\ InUser
  /\ \E t \in 0..PrioMod : threshold' = t % PrioMod
  /\ UNCHANGED <<handlers, reg, enable, prio, meie, ie, wires, pc, src, left, asked>>

GlobalEnable ==
  /\ InUser
  /\ meie                    \* irq_init comes first
  /\ ie' = TRUE
  /\ UNCHANGED <<handlers, reg, plicRegs, meie, wires, pc, src, left, asked>>

GlobalDisable ==
  /\ InUser
  /\ ie' = FALSE
  /\ UNCHANGED <<handlers, reg, plicRegs, meie, wires, pc, src, left, asked>>

-----------------------------------------------------------------------------
(***************************************************************************)
(* The trap.                                                               *)
(***************************************************************************)

Claimable == {s \in pending \cap enable : prio[s] > 0}
Delivered == \E s \in Claimable : prio[s] > threshold

\* The hart traps: status.IE is cleared, __trap_entry takes the slim path and
\* trap_dispatch calls handle_external.
TrapEnter ==
  /\ pc = "user"
  /\ ie /\ meie /\ Delivered
  /\ ie' = FALSE
  /\ pc' = "claim"
  /\ UNCHANGED <<handlers, reg, plicRegs, meie, wires, src, left, asked>>

\* plat_intc_claim.
PlicClaim(s) ==
  /\ s \in Claimable
  /\ \A t \in Claimable : prio[t] < prio[s] \/ (prio[t] = prio[s] /\ s <= t)
  /\ pending' = pending \ {s}
  /\ inflight' = inflight \cup {s}

\* One turn of the loop up to the handler's call; a source with no handler is
\* completed straight away.
HandleClaim ==
  /\ pc = "claim"
  /\ \E s \in Sources :
       /\ PlicClaim(s)
       /\ src' = s
       /\ pc' = IF handlers[s].fn # 0 THEN "fn" ELSE "complete"
  /\ UNCHANGED <<handlers, reg, plicRegs, meie, ie, line, left, asked, events>>

HandleDoneAllQuiet ==
  /\ pc = "claim"
  /\ pending = {}
  /\ pc' = "user" /\ src' = 0
  /\ ie' = TRUE
  /\ UNCHANGED <<handlers, reg, plicRegs, meie, wires, left, asked>>

\* Claim returned 0: handle_external returns, and XRET restores status.IE.
HandleDone ==
  /\ pc = "claim"
  /\ Claimable = {}
  /\ pc' = "user" /\ src' = 0
  /\ ie' = TRUE
  /\ UNCHANGED <<handlers, reg, plicRegs, meie, wires, left, asked>>

\* handlers[source].fn(source, ctx): external code that services its device.
HandleFn ==
  /\ pc = "fn"
  /\ line' = line \ {src}
  /\ pc' = "complete"
  /\ UNCHANGED <<handlers, reg, plicRegs, meie, ie, pending, inflight, src, left, asked, events>>

HandleCompleteForgets ==
  /\ pc = "complete"
  /\ inflight' = IF handlers[src].fn # 0 THEN inflight \ {src} ELSE inflight
  /\ pc' = "claim" /\ src' = 0
  /\ UNCHANGED <<handlers, reg, plicRegs, meie, ie, line, pending, left, asked, events>>

\* plat_intc_complete(source), whether or not a handler ran.
HandleComplete ==
  /\ pc = "complete"
  /\ inflight' = inflight \ {src}
  /\ pc' = "claim" /\ src' = 0
  /\ UNCHANGED <<handlers, reg, plicRegs, meie, ie, line, pending, left, asked, events>>

-----------------------------------------------------------------------------
(***************************************************************************)
(* Devices and the PLIC's gateways.                                        *)
(***************************************************************************)

DeviceRaises(s) ==
  /\ events < MaxEvents
  /\ s \notin line
  /\ line' = line \cup {s}
  /\ events' = events + 1
  /\ UNCHANGED <<handlers, reg, plicRegs, meie, ie, pending, inflight, pc, src, left, asked>>

Gateway(s) ==
  /\ s \in line \ (pending \cup inflight)
  /\ pending' = pending \cup {s}
  /\ UNCHANGED <<handlers, reg, plicRegs, meie, ie, line, inflight, pc, src, left, asked, events>>

-----------------------------------------------------------------------------

User ==
  \/ IrqInit \/ IrqRegisterCtx \/ SetThreshold \/ GlobalEnable \/ GlobalDisable
  \/ \E s \in Sources : \/ IrqRegister(s) \/ EnableSource(s) \/ DisableSource(s)
                        \/ SetPriority(s)

Trap == TrapEnter \/ HandleClaim \/ HandleDone \/ HandleFn \/ HandleComplete

IrqNext == User \/ Trap \/ \E s \in Sources : DeviceRaises(s) \/ Gateway(s)

\* A pending interrupt is taken, the dispatcher keeps running, lines are
\* latched.  What the program configures and what devices do is up to them.
IrqFairness ==
  /\ WF_irqVars(Trap) /\ WF_irqVars(IrqRegisterCtx)
  /\ \A s \in Sources : WF_irqVars(Gateway(s))

IrqSpec == IrqBoot /\ [][IrqNext]_irqVars
IrqFairSpec == IrqSpec /\ IrqFairness

-----------------------------------------------------------------------------
(***************************************************************************)
(* Properties.                                                             *)
(***************************************************************************)

\* Each variable ranges over the values the code can give it.
IrqTypeOK ==
  /\ handlers \in [Sources -> Handlers]
  /\ reg \in [source : Sources \cup {0}, ctx : 0..Regs]
  /\ enable \in SUBSET Sources
  /\ prio \in [Sources -> 0..PrioMod-1]
  /\ threshold \in 0..PrioMod-1
  /\ meie \in BOOLEAN /\ ie \in BOOLEAN
  /\ line \in SUBSET Sources /\ pending \in SUBSET Sources /\ inflight \in SUBSET Sources
  /\ pc \in {"user", "claim", "fn", "complete"}
  /\ src \in Sources \cup {0}
  /\ left \in SUBSET Sources /\ asked \in SUBSET Sources
  /\ events \in 0..MaxEvents

\* Every claim is paired with a completion before the trap returns, handler or
\* no handler (irq.c:155-165): outside the trap nothing is in flight, where its
\* gateway would stay shut for good, but what the previous stage left in flight.
EveryClaimCompleted ==
  inflight = left \cup (IF pc \in {"fn", "complete"} THEN {src} ELSE {})

\* About to call a handler with a context that is not its own: irq_register
\* stores the two separately and a trap can fall in between.
Torn == pc = "fn" /\ handlers[src].fn # handlers[src].ctx

\* The only source whose handler is ever called torn is the one irq_register is at
\* work on, and only if the program had enabled it before, with interrupts on.
\* A program that wires its handlers first (irq.c:61-63) is never hit, whatever
\* the previous stage left enabled and pending.
NoTornHandler == Torn => src = reg.source /\ src \in asked

\* What irq.h:45-46 lets a program rely on at any time: irq_register "Replaces any
\* prior handler.  Pass NULL to remove.": the new handler never gets the old one's
\* context.  The code does not keep it with more than one handler to replace.
ReplacesHandler == ~(Torn /\ handlers[src].ctx # 0)

\* A source that the program has enabled and given no priority of its own is
\* not stuck behind priority 0 (plat_m_clint.c:136-140): enabling it never
\* leaves it undeliverable.
EnableMakesDeliverable ==
  [][\A s \in Sources : (s \in enable' /\ s \notin enable) => prio'[s] > 0]_irqVars

\* A source that would be claimed again for ever: enabled, no handler to
\* service it, and its device asserting.
Storm(s) == s \in enable /\ handlers[s].fn = 0 /\ s \in line

\* Everything a device needs to be heard.
Wired(s) ==
  /\ s \in enable /\ prio[s] > threshold /\ handlers[s].fn # 0
  /\ meie /\ (ie \/ pc # "user")

\* The trap ends, unless some source storms.
TrapReturns == (pc # "user") ~> (pc = "user" \/ \E s \in Sources : Storm(s))

\* A device that asserts its line is heard, unless the program unwires its source
\* or some source storms.
Asserted(s) == s \in line /\ Wired(s)
Heard(s) == ~Asserted(s) \/ \E t \in Sources : Storm(t)

\* No interrupt is lost, whatever the previous stage left enabled, pending,
\* prioritised or asserted, except those of sources it had left claimed.
Serviced == \A s \in Sources : (s \notin left /\ Asserted(s)) ~> Heard(s)

\* "any registered+enabled IRQ delivers" (irq.h:57-60).  A source left claimed
\* does not: irq_init completes nothing (plat_m_clint.c:124-132).
AnyEnabledDelivers == \A s \in Sources : Asserted(s) ~> Heard(s)

-----------------------------------------------------------------------------
(***************************************************************************)
(* The inductive invariant.                                                *)
(***************************************************************************)

\* A claimed source is not latched again, so what the dispatcher claims is never
\* what the previous stage had left claimed.
ClaimInv ==
  /\ pending \cap inflight = {}
  /\ pc \in {"fn", "complete"} => src \notin left

\* Once irq_init has run, the enable bits are those the program asked for;
\* interrupts are on, and the dispatcher runs, only after that.
EnableInv ==
  /\ meie => enable = asked
  /\ ie => meie
  /\ pc # "user" => meie /\ ~ie
  /\ pc \in {"fn", "complete"} => src \in enable

\* A table entry is torn only while irq_register is at work on it.
TableInv ==
  /\ \A s \in Sources : s # reg.source => handlers[s].fn = handlers[s].ctx
  /\ reg.source # 0 => handlers[reg.source].fn = reg.ctx

IrqIInv == IrqTypeOK /\ EveryClaimCompleted /\ ClaimInv /\ EnableInv /\ TableInv
=============================================================================
