------------------------------- MODULE Timer -------------------------------
(***************************************************************************)
(* The two local interrupts of a hart, timer and software (IPI): the       *)
(* registration and enable calls of irq.c and the platform backends, their *)
(* branches of trap_dispatch, and time_busy_until of time.c, which waits   *)
(* with wfi on the very comparator a registered timer handler uses.        *)
(*                                                                         *)
(* Time is abstracted to whether a deadline has passed.  The comparator    *)
(* holds "never" ((uint64_t)-1), a deadline that is in the "future" or in  *)
(* the "past", or ("busy") the deadline time_busy_until waits for.         *)
(***************************************************************************)
EXTENDS Naturals

VARIABLES
  ie,         \* status.IE
  mtie,       \* mie.MTIE / sie.STIE
  msie,       \* mie.MSIE / sie.SSIE
  cmp,        \* mtimecmp / the SBI deadline
  elapsed,    \* the deadline of time_busy_until has passed
  sip,        \* IPI pending
  timer_fn,   \* NULL, or a handler that re-arms (periodic) or disarms (oneshot)
  ipi_fn,     \* NULL or fn
  trap,       \* where trap_dispatch is: none, timer, ack, ipi
  prog,       \* where the interrupted program is: user, or a step of time_busy_until
  old,        \* old_status of time_busy_until
  want,       \* history: the status.IE the program asked for
  ticking,    \* history: the program started a periodic tick and did not stop it
  busied,     \* history: time_busy_until ran since the tick was started
  mail        \* history: an IPI was sent that no handler has seen

timerVars == <<ie, mtie, msie, cmp, elapsed, sip, timer_fn, ipi_fn, trap, prog,
               old, want, ticking, busied, mail>>
machine == <<cmp, elapsed, sip, mail>>
tables == <<timer_fn, ipi_fn, mtie, msie>>
history == <<want, ticking, busied>>

NoFn == "NULL"

TimerInit ==
  /\ ie = FALSE /\ mtie = FALSE /\ msie = FALSE
  /\ cmp = "never" /\ elapsed = FALSE /\ sip = FALSE
  /\ timer_fn = NoFn /\ ipi_fn = NoFn
  /\ trap = "none" /\ prog = "user" /\ old = FALSE
  /\ want = FALSE /\ ticking = FALSE /\ busied = FALSE /\ mail = FALSE

\* The comparator has been reached.
Mtip == cmp = "past" \/ (cmp = "busy" /\ elapsed)

\* The program runs (it is not interrupted) and is outside time_busy_until.
InProgram == trap = "none" /\ prog = "user"

-----------------------------------------------------------------------------
(***************************************************************************)
(* Calls of the program.                                                   *)
(***************************************************************************)

\* irq_global_enable / irq_global_disable.
GlobalEnable ==
  /\ InProgram
  /\ \E b \in BOOLEAN : ie' = b /\ want' = b
  /\ UNCHANGED <<machine, tables, trap, prog, old, ticking, busied>>

\* A periodic tick runs: its handler, its interrupt and its deadline are set.
Starts(f, enabled, deadline) == f = "periodic" /\ enabled /\ deadline # "never"

\* irq_register_timer; irq_register_ipi.
RegisterTimer ==
  /\ InProgram
  /\ \E f \in {NoFn, "periodic", "oneshot"} :
       timer_fn' = f /\ ticking' = Starts(f, mtie, cmp)
  /\ UNCHANGED <<machine, mtie, msie, ipi_fn, ie, trap, prog, old, want, busied>>

RegisterIpi ==
  /\ InProgram
  /\ \E f \in {NoFn, "fn"} : ipi_fn' = f
  /\ UNCHANGED <<machine, mtie, msie, timer_fn, ie, trap, prog, old, history>>

\* irq_ipi_enable / irq_ipi_disable.
IpiEnable ==
  /\ InProgram
  /\ msie' \in BOOLEAN
  /\ UNCHANGED <<machine, mtie, timer_fn, ipi_fn, ie, trap, prog, old, history>>

\* plat_timer_set_deadline, to some deadline or to UINT64_MAX.
SetDeadline ==
  /\ InProgram
  /\ \E d \in {"future", "past", "never"} : cmp' = d /\ ticking' = Starts(timer_fn, mtie, d)
  /\ busied' = FALSE
  /\ UNCHANGED <<elapsed, sip, mail, tables, ie, trap, prog, old, want>>

\* plat_timer_irq_enable / plat_timer_irq_disable.
TimerIrqEnable ==
  /\ InProgram
  /\ \E b \in BOOLEAN : mtie' = b /\ ticking' = Starts(timer_fn, b, cmp)
  /\ busied' = FALSE
  /\ UNCHANGED <<machine, timer_fn, ipi_fn, msie, ie, trap, prog, old, want>>

-----------------------------------------------------------------------------
(***************************************************************************)
(* time_busy_until, one action per instruction that matters.               *)
(***************************************************************************)

Goto(from, to) == trap = "none" /\ prog = from /\ prog' = to

BusyCall ==
  /\ Goto("user", "mask")
  /\ elapsed' \in BOOLEAN
  /\ UNCHANGED <<cmp, sip, mail, tables, ie, trap, old, history>>

BusyMaskForgets ==
  /\ Goto("mask", "arm")
  /\ old' = ie
  /\ UNCHANGED <<machine, tables, ie, trap, history>>

\* csrrc status: the old value is kept, IE is off until the end.
BusyMask ==
  /\ Goto("mask", "arm")
  /\ old' = ie
  /\ ie' = FALSE
  /\ UNCHANGED <<machine, tables, trap, history>>

BusyArm ==
  /\ Goto("arm", "test")
  /\ mtie' = TRUE
  /\ UNCHANGED <<machine, timer_fn, ipi_fn, msie, ie, trap, old, history>>

\* while (time_now() < deadline).
BusyTest ==
  /\ trap = "none" /\ prog = "test"
  /\ prog' = IF elapsed THEN "never" ELSE "set"
  /\ UNCHANGED <<machine, tables, ie, trap, old, history>>

BusySet ==
  /\ Goto("set", "wfi")
  /\ cmp' = "busy"
  /\ UNCHANGED <<elapsed, sip, mail, tables, ie, trap, old, history>>

\* wfi ends when an enabled interrupt is pending, whatever status.IE says, and
\* may end for no reason.
BusyWake ==
  /\ Goto("wfi", "test")
  /\ (Mtip /\ mtie) \/ (sip /\ msie)
  /\ UNCHANGED <<machine, tables, ie, trap, old, history>>

BusyWakeSpuriously ==
  /\ Goto("wfi", "test")
  /\ UNCHANGED <<machine, tables, ie, trap, old, history>>

BusyNeverForgets ==
  /\ Goto("never", "disarm")
  /\ UNCHANGED <<machine, tables, ie, trap, old, history>>

\* plat_timer_set_deadline(-1).
BusyNever ==
  /\ Goto("never", "disarm")
  /\ cmp' = "never"
  /\ UNCHANGED <<elapsed, sip, mail, tables, ie, trap, old, history>>

\* plat_timer_irq_disable.
BusyDisarm ==
  /\ Goto("disarm", "restore")
  /\ mtie' = FALSE
  /\ busied' = TRUE
  /\ UNCHANGED <<machine, timer_fn, ipi_fn, msie, ie, trap, old, want, ticking>>

BusyRestoreAlways ==
  /\ Goto("restore", "user")
  /\ ie' = TRUE
  /\ old' = FALSE /\ elapsed' = FALSE
  /\ UNCHANGED <<cmp, sip, mail, tables, trap, history>>

\* csrs status, if it was set.
BusyRestore ==
  /\ Goto("restore", "user")
  /\ ie' = (ie \/ old)
  /\ old' = FALSE /\ elapsed' = FALSE
  /\ UNCHANGED <<cmp, sip, mail, tables, trap, history>>

-----------------------------------------------------------------------------
(***************************************************************************)
(* trap_dispatch.  A trap clears status.IE; XRET sets it again.            *)
(***************************************************************************)

TakeTrap(where) ==
  /\ trap = "none" /\ ie
  /\ trap' = where
  /\ ie' = FALSE
  /\ UNCHANGED <<machine, tables, prog, old, history>>

TimerTrap == mtie /\ Mtip /\ TakeTrap("timer")
SoftTrap == msie /\ sip /\ TakeTrap("ack")

TimerDispatchMasks ==
  /\ trap = "timer"
  /\ cmp' = CASE timer_fn = "periodic" -> "future" [] timer_fn = "oneshot" -> "never"
              [] timer_fn = NoFn -> cmp
  /\ mtie' = FALSE
  /\ trap' = "none" /\ ie' = TRUE
  /\ UNCHANGED <<elapsed, sip, mail, timer_fn, ipi_fn, msie, prog, old, history>>

\* CAUSE_TIMER: the handler owns the deadline; without one the IE bit goes off.
TimerDispatch ==
  /\ trap = "timer"
  /\ \/ timer_fn = "periodic" /\ cmp' = "future" /\ UNCHANGED mtie
     \/ timer_fn = "oneshot" /\ cmp' = "never" /\ UNCHANGED mtie
     \/ timer_fn = NoFn /\ mtie' = FALSE /\ UNCHANGED cmp
  /\ trap' = "none" /\ ie' = TRUE
  /\ UNCHANGED <<elapsed, sip, mail, timer_fn, ipi_fn, msie, prog, old, history>>

SoftDispatchSwapped ==
  /\ \/ trap = "ack" /\ mail' = FALSE /\ trap' = "ipi" /\ UNCHANGED <<sip, ie>>
     \/ trap = "ipi" /\ sip' = FALSE /\ trap' = "none" /\ ie' = TRUE /\ UNCHANGED mail
  /\ UNCHANGED <<cmp, elapsed, tables, prog, old, history>>

\* CAUSE_SOFTWARE: plat_ipi_ack first; then the handler, if any, looks at what
\* was sent.
SoftDispatch ==
  /\ \/ trap = "ack" /\ sip' = FALSE /\ trap' = "ipi" /\ UNCHANGED <<mail, ie>>
     \/ trap = "ipi" /\ mail' = FALSE /\ trap' = "none" /\ ie' = TRUE /\ UNCHANGED sip
  /\ UNCHANGED <<cmp, elapsed, tables, prog, old, history>>

-----------------------------------------------------------------------------
(***************************************************************************)
(* The world: time, and other harts.                                       *)
(***************************************************************************)

CmpReached ==
  /\ cmp = "future"
  /\ cmp' = "past"
  /\ UNCHANGED <<elapsed, sip, mail, tables, ie, trap, prog, old, history>>

DeadlineReached ==
  /\ prog # "user" /\ ~elapsed
  /\ elapsed' = TRUE
  /\ UNCHANGED <<cmp, sip, mail, tables, ie, trap, prog, old, history>>

\* Another hart writes its message and calls plat_ipi_send.
IpiArrives ==
  /\ sip' = TRUE /\ mail' = TRUE
  /\ UNCHANGED <<cmp, elapsed, tables, ie, trap, prog, old, history>>

-----------------------------------------------------------------------------

Calls ==
  \/ GlobalEnable \/ RegisterTimer \/ RegisterIpi \/ IpiEnable
  \/ SetDeadline \/ TimerIrqEnable \/ BusyCall

Busy ==
  \/ BusyMask \/ BusyArm \/ BusyTest \/ BusySet \/ BusyWake \/ BusyNever \/ BusyDisarm
  \/ BusyRestore

TakesTrap == TimerTrap \/ SoftTrap
Dispatches == TimerDispatch \/ SoftDispatch

TimerNext ==
  \/ Calls \/ Busy \/ BusyWakeSpuriously \/ TakesTrap \/ Dispatches
  \/ CmpReached \/ DeadlineReached \/ IpiArrives

\* Time passes, the hart executes time_busy_until and the dispatcher, and an
\* interrupt that stays enabled and pending is taken.  The program need not
\* call anything, a wfi need not end spuriously, no IPI need arrive.  A hart
\* gets instructions done between two interrupts, so Busy is strongly fair.
TimerFairness ==
  /\ SF_timerVars(Busy) /\ WF_timerVars(Dispatches)
  /\ SF_timerVars(TimerTrap) /\ SF_timerVars(SoftTrap)
  /\ WF_timerVars(CmpReached) /\ WF_timerVars(DeadlineReached)

TimerSpec == TimerInit /\ [][TimerNext]_timerVars
TimerFairSpec == TimerSpec /\ TimerFairness

-----------------------------------------------------------------------------
(***************************************************************************)
(* Properties.                                                             *)
(***************************************************************************)

FlagsOK ==
  /\ ie \in BOOLEAN /\ mtie \in BOOLEAN /\ msie \in BOOLEAN
  /\ elapsed \in BOOLEAN /\ sip \in BOOLEAN /\ old \in BOOLEAN
  /\ want \in BOOLEAN /\ ticking \in BOOLEAN /\ busied \in BOOLEAN /\ mail \in BOOLEAN

PlacesOK ==
  /\ cmp \in {"never", "future", "past", "busy"}
  /\ timer_fn \in {NoFn, "periodic", "oneshot"} /\ ipi_fn \in {NoFn, "fn"}
  /\ trap \in {"none", "timer", "ack", "ipi"}
  /\ prog \in {"user", "mask", "arm", "test", "set", "wfi", "never", "disarm", "restore"}

\* Each variable ranges over the values the code can give it.
TimerTypeOK == FlagsOK /\ PlacesOK

\* When the program runs again after a trap or after time_busy_until, global
\* interrupts are as it asked for, whatever traps hit which step of the wait
\* (time.c:46-48, "restore it after").
IEAsAsked == InProgram => ie = want

\* An IPI is never swallowed: while a message has not been looked at, its
\* interrupt is pending or the handler is about to run.  This is why the
\* dispatcher acknowledges before it calls the handler (irq.c:191-194).
IpiNotLost == mail => sip \/ trap = "ipi"

\* The wait itself never traps, neither while it lasts (time.c:31-33, "so no
\* IRQ trap fires") nor afterwards through a deadline it left behind
\* (time.c:35-37).
BusyNeverTraps == trap = "timer" => cmp # "busy"

\* time_busy_until returns: no trap, no handler and no IPI traffic can make
\* its wfi sleep for good (time.c:28-30, 40-46).
BusyReturns == (prog # "user") ~> (prog = "user")

\* A periodic tick ("it re-arms for a periodic tick ... or disarms to stop",
\* irq.c:178-181) goes on until the program stops it or calls time_busy_until,
\* which leaves the comparator at never and the interrupt off (time.c:57-58).
TickUntilBusy ==
  (ticking /\ ie) ~> (trap = "timer" \/ ~ticking \/ ~want \/ busied)

-----------------------------------------------------------------------------
(***************************************************************************)
(* The inductive invariant.                                                *)
(***************************************************************************)

\* Steps of time_busy_until with status.IE off.
Masked == {"arm", "test", "set", "wfi", "never", "disarm", "restore"}

\* status.IE is what the program asked for until the wait masks it, which keeps
\* it in old_status; a trap is only ever taken from unmasked code.
StatusInv ==
  /\ (trap = "none" /\ prog \in {"user", "mask"}) => ie = want
  /\ trap # "none" => want /\ ~ie /\ prog \in {"user", "mask"}
  /\ prog \in Masked => ~ie /\ old = want

\* The deadline of the wait is in the comparator only inside the wait.
BusyDeadline == cmp = "busy" => prog \in {"test", "set", "wfi", "never"}

TimerIInv == TimerTypeOK /\ StatusInv /\ BusyDeadline /\ IpiNotLost
=============================================================================
