------------------------------- MODULE Panic -------------------------------
(***************************************************************************)
(* panic.c: hal_panic, HAL_CHECK and hardware traps on several harts that  *)
(* share one UART.  A panicking hart prints its message, then contends for *)
(* the guard; the winner's dump reaches the wire in three chunks, opening  *)
(* marker, body and end marker.                                            *)
(***************************************************************************)
EXTENDS Integers, Sequences

CONSTANT Harts

VARIABLES
  ppc,        \* ppc[h]: ok, msg, guard, begin, body, end, halt
  guard,      \* panic_in_progress
  wire        \* the chunks the UART has sent: [hart, part] in order

panicVars == <<ppc, guard, wire>>

DumpParts == {"begin", "body", "end"}

PanicInit ==
  /\ ppc = [h \in Harts |-> "ok"]
  /\ guard = 0
  /\ wire = <<>>

Send(h, part) == wire' = Append(wire, [hart |-> h, part |-> part])

\* hal_panic / a failed HAL_CHECK.  Interrupts stay as they were.
PanicCall(h) ==
  /\ ppc[h] = "ok"
  /\ ppc' = [ppc EXCEPT ![h] = "msg"]
  /\ UNCHANGED <<guard, wire>>

\* hal_panic_v prints the narrative before it enters dump_and_halt, and before
\* the guard.
PrintMessage(h) ==
  /\ ppc[h] = "msg"
  /\ ppc' = [ppc EXCEPT ![h] = "guard"]
  /\ Send(h, "message")
  /\ UNCHANGED guard

\* A synchronous exception in running code or in the panic code itself (the
\* UART is what is broken): trap_dispatch -> hal_panic_from_trap.
Fault(h) ==
  /\ ppc[h] \in {"ok", "msg"} \cup DumpParts
  /\ ppc' = [ppc EXCEPT ![h] = "guard"]
  /\ UNCHANGED <<guard, wire>>

GuardNeverSet(h) ==
  /\ ppc[h] = "guard"
  /\ ppc' = [ppc EXCEPT ![h] = IF guard = 0 THEN "begin" ELSE "halt"]
  /\ UNCHANGED <<guard, wire>>

GuardSpins(h) ==
  /\ ppc[h] = "guard"
  /\ guard = 0
  /\ ppc' = [ppc EXCEPT ![h] = "begin"]
  /\ guard' = 1
  /\ UNCHANGED wire

\* dump_and_halt: atomic_cas_u32(&panic_in_progress, 0, 1).  It returns false
\* when the guard is taken, but also when its sc.w has failed 32 times; either
\* way the hart halts.
Guard(h) ==
  /\ ppc[h] = "guard"
  /\ \/ /\ guard = 0
        /\ ppc' = [ppc EXCEPT ![h] = "begin"]
        /\ guard' = 1
     \/ /\ ppc' = [ppc EXCEPT ![h] = "halt"]
        /\ UNCHANGED guard
  /\ UNCHANGED wire

\* The rest of dump_and_halt, then wfi forever.
Dump(h) ==
  /\ ppc[h] \in DumpParts
  /\ Send(h, ppc[h])
  /\ ppc' = [ppc EXCEPT ![h] = CASE @ = "begin" -> "body" [] @ = "body" -> "end" [] @ = "end" -> "halt"]
  /\ UNCHANGED guard

PanicStep(h) ==
  \/ PanicCall(h) \/ PrintMessage(h) \/ Fault(h) \/ Guard(h) \/ Dump(h)

PanicNext == \E h \in Harts : PanicStep(h)

PanicFairness ==
  \A h \in Harts : WF_panicVars(PrintMessage(h) \/ Guard(h) \/ Dump(h))

-----------------------------------------------------------------------------

Order == [message |-> 0, begin |-> 1, body |-> 2, end |-> 3]
OrderAt(i) == Order[wire[i].part]

\* A hart prints each part once at most and in order, also when it faults inside
\* the message or the dump (panic.h:35-36); one hart dumps at most
\* (panic.c:19-23), and no part of its dump comes without the one before.
OneDump ==
  \A j \in 1..Len(wire) :
    /\ \A i \in 1..(j - 1) :
         /\ wire[i].hart = wire[j].hart => OrderAt(i) < OrderAt(j)
         /\ OrderAt(i) > 0 /\ OrderAt(j) > 0 => wire[i].hart = wire[j].hart
    /\ OrderAt(j) > 1 => \E i \in 1..(j - 1) : OrderAt(i) = OrderAt(j) - 1

\* The dump is readable: no other hart's output lands between its opening and
\* its end marker.  The code does not keep it, since messages go out ahead of the guard.
DumpUnbroken ==
  \A i, k \in 1..Len(wire) :
    wire[i].part = "begin" /\ wire[k].part = "end"
      => \A j \in i..k : wire[j].hart = wire[i].hart

\* A hart that panics ends in its wfi loop for good, whatever the others do.
PanicHalts == \A h \in Harts : (ppc[h] # "ok") ~> [](ppc[h] = "halt")
=============================================================================
